---------------------------- MODULE Spec2Model ----------------------------
(***************************************************************************)
(* AetherLink: three-axis antenna mount on one RS-485 bus.                 *)
(*                                                                         *)
(* The module holds state machines over one set of variables:              *)
(*   SpecLink  - MKSServo57D._xfer/_send/_recv: one transaction, byte by   *)
(*               byte, against drives that answer late, wrongly or not at  *)
(*               all (mks_servo57d_lib.py)                                 *)
(*   SpecMove  - MotorController and LimitProtectionSystem: safe/unsafe    *)
(*               moves and the two emergency_stop_all                      *)
(*   SpecTrack - TrackingController: start, stop, set_target, the tracking *)
(*               loop and the asyncio bus lock                             *)
(*   SpecBus   - the contexts of the backend that talk to the drives:      *)
(*               tracking loop, telemetry polling, the stop endpoints      *)
(*   SpecProt  - LimitProtectionSystem: check_limits, validate_move,       *)
(*               recover_from_limit                                        *)
(*   SpecShared - validate_move and update_motor_limits on two threads     *)
(*   SpecLinkFair - the link with one drive and the serial timeouts        *)
(*   SpecTick  - one tracking loop and a mount that moves                  *)
(*   SpecCalc  - the functions that keep no state, applied to arguments    *)
(*               drawn from small sets                                     *)
(***************************************************************************)
EXTENDS Integers, Sequences, FiniteSets, TLC

VARIABLES
  \* ---- link layer (MKSServo57D) ----
  lpc,        \* position inside _xfer: idle, reset, write, hdr, rest, scan
  req,        \* the request of the running transaction: [addr, code]
  rx,         \* the serial receive buffer (bytes, oldest first)
  rxOld,      \* how many leading bytes of rx arrived before the last clearing point
  usedOld,    \* the running transaction consumed such a byte
  wire,       \* bytes sent by drives, not yet arrived in rx
  owed,       \* requests written to the bus that no drive has answered yet
  hdr,        \* _recv: the 3 header bytes read
  payload,    \* _recv: the bytes read after the header
  ret,        \* what the last _xfer returned or raised
  nwrites,    \* request frames written by the running transaction
  lastTx,     \* the last frame written to the transport
  ntx,        \* transactions started
  dropped,    \* bytes the last clearing of the receive buffer threw away
  \* ---- MotorController and LimitProtectionSystem ----
  axisAddr,   \* MotorController: the address of each axis (constructor arguments)
  protOn,     \* MotorController.protection is not None (enable_protection)
  protEnabled,\* LimitProtectionSystem._enabled
  motors,     \* LimitProtectionSystem.motors: name -> MotorLimits
  mc,         \* the last finished call: its arguments, the frames it sent, its result
  \* ---- backend: TrackingController and the other users of the bus ----
  running,    \* TrackingController.running
  busOwner,   \* the task that holds HardwareManager._bus_lock
  busWaiters, \* the tasks waiting for the lock, longest waiting first
  loops,      \* the _tracking_loop tasks created by start(): position and pending command
  stopCall,   \* the running TrackingController.stop(): position and axis index
  axes,       \* TrackingController.axes: axis -> AxisTrackingState
  lastCmd,    \* per axis: the last motion frame written to its drive
  lastTick,   \* the axis the tracking loop handled last and how its read ended
  tele,       \* the telemetry poll (_get_servo_telemetry): position and axis index
  api,        \* the stop / stop-all endpoint call in progress
  \* ---- LimitProtectionSystem used from two threads ----
  chk,        \* the validate_move in progress: position, arguments, the limits it compared with
  upd,        \* the update_motor_limits in progress: the attributes still to set
  \* ---- functions of the library that keep no state ----
  calc        \* the last call: function, arguments, result

linkVars == <<lpc, req, rx, rxOld, usedOld, wire, owed, hdr, payload, ret,
              nwrites, lastTx, ntx, dropped>>
moveVars == <<axisAddr, protOn, protEnabled, motors, mc>>
trackVars == <<running, busOwner, busWaiters, loops, stopCall, axes, lastCmd,
               lastTick, tele, api>>
sharedVars == <<chk, upd>>
vars == <<linkVars, moveVars, trackVars, sharedVars, calc>>
\* what an action of one component leaves alone in the others
notLink == <<moveVars, trackVars, sharedVars, calc>>
notMove == <<linkVars, trackVars, sharedVars, calc>>
notTrack == <<linkVars, moveVars, sharedVars, calc>>
notShared == <<linkVars, trackVars, axisAddr, protOn, protEnabled, mc, calc>>
notCalc == <<linkVars, moveVars, trackVars, sharedVars>>

-----------------------------------------------------------------------------
\* Bounds of the link model
MaxTxn == 2

\* Protocol constants
DOWN_HDR == 250
UP_HDR == 251

\* Drive addresses on the bus (azimuth, elevation, cross)
Addrs == {1, 2, 3}

\* Opcodes used by the model: 0x31 read angle, 0x3E read protect flag,
\* 0x3D release protect, 0xF5 absolute move, 0xF6 speed mode, 0xF7 emergency stop
OP_READ_ANGLE == 49
OP_READ_PROTECT == 62
OP_EMERGENCY_STOP == 247

\* _EXPECT_LEN: total reply length of the opcodes with a fixed length; 0 stands
\* for None (not in the table, or variable): the scanning receive path
ExpectLen(code) ==
  CASE code = 48 -> 10
    [] code = 49 -> 10
    [] code = 50 -> 6
    [] code = 51 -> 8
    [] code = 52 -> 5
    [] code = 53 -> 10
    [] code = 57 -> 8
    [] code = 58 -> 5
    [] code = 59 -> 5
    [] code = 61 -> 5
    [] code = 62 -> 5
    [] code = 65 -> 5
    [] code = 70 -> 5
    [] OTHER -> 0

RECURSIVE SumSeq(_)
SumSeq(s) == IF s = <<>> THEN 0 ELSE Head(s) + SumSeq(Tail(s))

\* _checksum8: sum(data) & 0xFF
Checksum8(data) == SumSeq(data) % 256

Front(s) == SubSeq(s, 1, Len(s) - 1)
Last(s) == s[Len(s)]

\* _frame: head + data + checksum
Frame(addr, code, data) ==
  LET head == <<DOWN_HDR, addr % 256, code % 256>>
  IN  (head \o data) \o <<Checksum8(head \o data)>>


-----------------------------------------------------------------------------
\* (variant: _send without the clearing, what was received earlier stays)
ResetInputBufferKept(buf) == buf

\* Serial.reset_input_buffer as _send uses it: the receive buffer is dropped
ResetInputBuffer(buf) == <<>>

\* (variant: _recv called with expect_addr = None, any address passes)
AddrMatchesAny(h, expect_addr) == TRUE

\* _recv's address test on the header (expect_addr is never None in _xfer)
AddrMatches(h, expect_addr) == h[2] = expect_addr % 256

\* (variant: the checksum byte is read but never compared)
ChecksumOkAny(frame) == TRUE

\* _recv's checksum test, the same in the fixed-length and the scanning path
ChecksumOk(frame) == Checksum8(Front(frame)) = Last(frame)

\* _recv's function-code test
CodeMatches(h, expect_code) == h[3] = expect_code % 256

NoRet == [kind |-> "none", why |-> "", frame |-> <<>>]
Raise(kind, why) == [kind |-> kind, why |-> why, frame |-> <<>>]
Returns(frame) == [kind |-> "frame", why |-> "", frame |-> frame]

\* ---- the drives: what may come back for a request ----
\* payload a drive sends for a request code
ReplyPayloads(code) ==
  IF code = OP_READ_ANGLE
    THEN {<<0, 0, 0, 0, 16, 0>>}
    ELSE {<<1>>}

UpFrame(addr, code, data) ==
  LET head == <<UP_HDR, addr, code>>
  IN  (head \o data) \o <<Checksum8(head \o data)>>

\* lengths a reply may be cut to by a drive that stops mid-frame
ShortLens == {2, 4}

\* everything a drive (the addressed one, or another one answering late or out
\* of turn) may put on the wire for request r
ReplyChoices(r) ==
  LET good == {UpFrame(r.addr, r.code, d) : d \in ReplyPayloads(r.code)}
      badsum == {Front(f) \o <<(Last(f) + 1) % 256>> : f \in good}
      short == {SubSeq(f, 1, k) : f \in good, k \in ShortLens}
  IN  good \cup badsum \cup short

\* ---- MKSServo57D._xfer ----
LinkOps == {OP_READ_PROTECT, OP_EMERGENCY_STOP}
\* the drives the link model talks to
LinkAddrs == {1, 2}

XferBegin(a, c) ==
  /\ lpc = "idle"
  /\ ntx < MaxTxn
  /\ lpc' = "reset"
  /\ req' = [addr |-> a, code |-> c]
  /\ ntx' = ntx + 1
  /\ nwrites' = 0
  /\ usedOld' = FALSE
  /\ hdr' = <<>>
  /\ payload' = <<>>
  /\ ret' = NoRet
  /\ dropped' = 0
  /\ UNCHANGED <<rx, rxOld, wire, owed, lastTx>>
  /\ UNCHANGED notLink

\* _send, first statement: self.ser.reset_input_buffer()
SendReset ==
  /\ lpc = "reset"
  /\ rx' = ResetInputBuffer(rx)
  /\ rxOld' = Len(rx')
  /\ dropped' = Len(rx) - Len(rx')
  /\ lpc' = "write"
  /\ UNCHANGED <<req, usedOld, wire, owed, hdr, payload, ret, nwrites, lastTx, ntx>>
  /\ UNCHANGED notLink

\* _send, second and third statement: self.ser.write(frame); self.ser.flush()
SendWrite ==
  /\ lpc = "write"
  /\ lastTx' = Frame(req.addr, req.code, <<>>)
  /\ nwrites' = nwrites + 1
  /\ owed' = owed \cup {req}
  /\ lpc' = "hdr"
  /\ UNCHANGED <<req, rx, rxOld, usedOld, wire, hdr, payload, ret, ntx, dropped>>
  /\ UNCHANGED notLink

\* ser.read(k) took the first k bytes of the receive buffer
Consume(k) ==
  /\ rx' = SubSeq(rx, k + 1, Len(rx))
  /\ rxOld' = IF rxOld > k THEN rxOld - k ELSE 0
  /\ usedOld' = (usedOld \/ (rxOld > 0 /\ k > 0))

\* (variant: a link that sends the request once more after a failed reply)
FinishRetry(r) ==
  IF r.kind # "frame" /\ nwrites < 2
    THEN /\ ret' = ret
         /\ lpc' = "write"
         /\ hdr' = <<>>
         /\ payload' = <<>>
    ELSE /\ ret' = r
         /\ lpc' = "idle"
         /\ hdr' = <<>>
         /\ payload' = <<>>

\* the call ends: its result, and _recv's locals are gone
Finish(r) ==
  /\ ret' = r
  /\ lpc' = "idle"
  /\ hdr' = <<>>
  /\ payload' = <<>>

\* _recv: hdr = self.ser.read(3) and the tests on it
RecvHdr ==
  /\ lpc = "hdr"
  /\ IF Len(rx) >= 3
       THEN LET h == SubSeq(rx, 1, 3) IN
            /\ Consume(3)
            /\ IF h[1] # UP_HDR THEN Finish(Raise("ProtocolError", "header"))
               ELSE IF ~AddrMatches(h, req.addr) THEN Finish(Raise("ProtocolError", "addr"))
               ELSE /\ lpc' = (IF ExpectLen(h[3]) = 0 THEN "scan" ELSE "rest")
                    /\ hdr' = h
                    /\ UNCHANGED <<ret, payload>>
       ELSE \* the read timed out with fewer than 3 bytes
            /\ Consume(Len(rx))
            /\ Finish(Raise("NoResponse", "header"))
  /\ UNCHANGED <<req, wire, owed, nwrites, lastTx, ntx, dropped>>
  /\ UNCHANGED notLink

\* _recv, fixed length: rest = self.ser.read(exp - 3) and the tests on the frame
RecvRest ==
  /\ lpc = "rest"
  /\ LET n == ExpectLen(hdr[3]) - 3 IN
     IF Len(rx) >= n
       THEN LET frame == hdr \o SubSeq(rx, 1, n) IN
            /\ Consume(n)
            /\ IF ~ChecksumOk(frame) THEN Finish(Raise("ChecksumError", "checksum"))
               ELSE IF ~CodeMatches(hdr, req.code) THEN Finish(Raise("ProtocolError", "fn"))
               ELSE Finish(Returns(frame))
       ELSE \* the read timed out short
            /\ Consume(Len(rx))
            /\ Finish(Raise("NoResponse", "short"))
  /\ UNCHANGED <<req, wire, owed, nwrites, lastTx, ntx, dropped>>
  /\ UNCHANGED notLink

\* _recv, scanning: one pass of the while loop that read a byte
RecvScanByte ==
  /\ lpc = "scan"
  /\ rx # <<>>
  /\ LET candidate == (hdr \o payload) \o <<rx[1]>> IN
     /\ Consume(1)
     /\ IF ChecksumOk(candidate)
          THEN IF ~CodeMatches(hdr, req.code) THEN Finish(Raise("ProtocolError", "fn"))
               ELSE Finish(Returns(candidate))
          ELSE /\ payload' = Append(payload, rx[1])
               /\ UNCHANGED <<lpc, ret, hdr>>
  /\ UNCHANGED <<req, wire, owed, nwrites, lastTx, ntx, dropped>>
  /\ UNCHANGED notLink

\* (variant: a scanning read without a deadline, which waits for the next byte)
RecvScanBlocks ==
  /\ lpc = "scan"
  /\ FALSE
  /\ UNCHANGED vars

\* _recv, scanning: read(1) returned nothing, or the deadline passed
RecvScanTimeout ==
  /\ lpc = "scan"
  /\ Finish(Raise("NoResponse", "scan"))
  /\ UNCHANGED <<req, rx, rxOld, usedOld, wire, owed, nwrites, lastTx, ntx, dropped>>
  /\ UNCHANGED notLink

\* ---- environment: the drives and the line ----
\* a drive answers a request it was sent (now, or long after the host gave up);
\* the line is half duplex, one drive talks at a time
DriveReply ==
  /\ wire = <<>>
  /\ \E r \in owed : \E bytes \in ReplyChoices(r) :
       /\ wire' = wire \o bytes
       /\ owed' = owed \ {r}
  /\ UNCHANGED <<lpc, req, rx, rxOld, usedOld, hdr, payload, ret, nwrites, lastTx, ntx, dropped>>
  /\ UNCHANGED notLink

\* one byte arrives in the receive buffer
Deliver ==
  /\ wire # <<>>
  /\ rx' = Append(rx, Head(wire))
  /\ wire' = Tail(wire)
  /\ UNCHANGED <<lpc, req, rxOld, usedOld, owed, hdr, payload, ret, nwrites, lastTx, ntx, dropped>>
  /\ UNCHANGED notLink

InitLink ==
  /\ lpc = "idle"
  /\ req = [addr |-> 1, code |-> OP_READ_PROTECT]
  /\ rx = <<>>
  /\ rxOld = 0
  /\ usedOld = FALSE
  /\ wire = <<>>
  /\ owed = {}
  /\ hdr = <<>>
  /\ payload = <<>>
  /\ ret = NoRet
  /\ nwrites = 0
  /\ lastTx = <<>>
  /\ ntx = 0
  /\ dropped = 0

NextLink ==
  \/ \E a \in LinkAddrs, c \in LinkOps : XferBegin(a, c)
  \/ SendReset
  \/ SendWrite
  \/ RecvHdr
  \/ RecvRest
  \/ RecvScanByte
  \/ RecvScanTimeout
  \/ DriveReply
  \/ Deliver

-----------------------------------------------------------------------------
\* MotorController and LimitProtectionSystem (multi_motor_controller.py,
\* limit_protection.py).  Both are synchronous: a call runs to its end, so one
\* call is one action; what the drives answer during the call is its input.

AxisNames == <<"azimuth", "elevation", "cross">>
AxisSet == {"azimuth", "elevation", "cross"}

OP_READ_IO == 52
OP_READ_ERROR == 57
OP_MOVE_ABS == 245
OP_RELEASE_PROTECT == 61

TICKS_PER_REV == 16384

\* Python's round() of the fraction n/d, d > 0: to nearest, ties to even
RoundHalfEven(n, d) ==
  LET q == n \div d
      r == n % d
  IN  IF 2 * r < d THEN q
      ELSE IF 2 * r > d THEN q + 1
      ELSE IF q % 2 = 0 THEN q ELSE q + 1

\* degrees_to_axis_ticks for whole degrees
DegreesToAxisTicks(deg) == RoundHalfEven(deg * TICKS_PER_REV, 360)

\* An Optional[float]: None or a value
None == [has |-> FALSE, v |-> 0]
Some(x) == [has |-> TRUE, v |-> x]

\* create_aetherlink_protection: the three MotorLimits
DefaultMotors ==
  [n \in AxisSet |->
     CASE n = "azimuth" ->
            [addr |-> 1, min_angle |-> Some(0), max_angle |-> Some(360),
             has_hardware_limits |-> TRUE, max_following_error |-> 500,
             warning_margin |-> 10, recovery_distance |-> 2, recovery_speed |-> 100]
       [] n = "elevation" ->
            [addr |-> 2, min_angle |-> Some(0), max_angle |-> Some(90),
             has_hardware_limits |-> FALSE, max_following_error |-> 500,
             warning_margin |-> 5, recovery_distance |-> 2, recovery_speed |-> 100]
       [] OTHER ->
            [addr |-> 3, min_angle |-> Some(-45), max_angle |-> Some(45),
             has_hardware_limits |-> FALSE, max_following_error |-> 400,
             warning_margin |-> 5, recovery_distance |-> 2, recovery_speed |-> 100]]

\* MotorController.__init__: the default axis addresses
DefaultAddrs ==
  [n \in AxisSet |-> CASE n = "azimuth" -> 1 [] n = "elevation" -> 2 [] OTHER -> 3]

\* MotorController.__init__: the axis addresses a caller may pass
AddrConfigs ==
  {DefaultAddrs,
   [n \in AxisSet |-> CASE n = "azimuth" -> 4 [] n = "elevation" -> 5 [] OTHER -> 6]}

\* ---- what the drives answer during one call ----
\* a read: it raised (ok = FALSE) or returned v
Failed == [ok |-> FALSE, v |-> 0]
Got(x) == [ok |-> TRUE, v |-> x]

DriveAngles == {-3, 45, 95}
DriveErrors == {0, -600}

\* the answers to the reads of one check_limits and to the command that may follow
\* (sw: the inputs read_limits reports active: 0 none, 1 in1, 2 in2)
Envs ==
  [ang : {Failed} \cup {Got(a) : a \in DriveAngles},
   sw  : {Failed, Got(0), Got(1)},
   prot: {Failed, Got(0), Got(1)},
   err : {Failed} \cup {Got(e) : e \in DriveErrors},
   cmd : {Failed, Got(0), Got(1)}]

\* one frame handed to the transport
Fr(addr, code, rpm, ticks) == [addr |-> addr, code |-> code, rpm |-> rpm, ticks |-> ticks]

V_NONE == "NONE"
V_SOFTWARE_MIN == "SOFTWARE_MIN"
V_SOFTWARE_MAX == "SOFTWARE_MAX"
V_HARDWARE_LIMIT == "HARDWARE_LIMIT"
V_STALL_DETECTED == "STALL_DETECTED"
V_FOLLOWING_ERROR == "FOLLOWING_ERROR"

Abs(x) == IF x < 0 THEN -x ELSE x

\* LimitStatus() with its defaults
EmptyStatus ==
  [violation_type |-> V_NONE, current_angle |-> None, limit_value |-> None,
   axis_error |-> 0, protect_flag |-> 0, in_warning_zone |-> FALSE,
   read_failed |-> FALSE, sent |-> <<>>]

\* (variant of the warning zone of check_limits: an angle exactly
\* warning_margin away from a limit counts as inside)
WarningZoneInclusive(limits, a) ==
  \/ (limits.min_angle.has /\ a <= limits.min_angle.v + limits.warning_margin)
  \/ (limits.max_angle.has /\ a >= limits.max_angle.v - limits.warning_margin)

\* check_limits, "Check warning zones": in_warning_zone for the angle a
WarningZone(limits, a) ==
  \/ (limits.min_angle.has /\ a < limits.min_angle.v + limits.warning_margin)
  \/ (limits.max_angle.has /\ a > limits.max_angle.v - limits.warning_margin)

\* (variant of check_limits: the protect flag is read and tested before the
\* limit switches)
CheckLimitsStallFirst(enabled, limits, env) ==
  IF ~enabled THEN EmptyStatus
  ELSE
  LET rdAng == <<Fr(limits.addr, OP_READ_ANGLE, 0, 0)>>
      rdProt == rdAng \o <<Fr(limits.addr, OP_READ_PROTECT, 0, 0)>>
      rdIo == rdProt \o <<Fr(limits.addr, OP_READ_IO, 0, 0)>>
      afterIo == IF limits.has_hardware_limits THEN rdIo ELSE rdProt
      rdErr == afterIo \o <<Fr(limits.addr, OP_READ_ERROR, 0, 0)>>
      a == env.ang.v
      s0 == [EmptyStatus EXCEPT !.current_angle = Some(a)]
      s1 == [s0 EXCEPT !.in_warning_zone = WarningZone(limits, a)]
      s2 == [s1 EXCEPT !.protect_flag = env.prot.v]
  IN  IF ~env.ang.ok
        THEN [EmptyStatus EXCEPT !.read_failed = TRUE, !.sent = rdAng]
      ELSE IF limits.min_angle.has /\ a < limits.min_angle.v
        THEN [s0 EXCEPT !.violation_type = V_SOFTWARE_MIN,
                        !.limit_value = limits.min_angle, !.sent = rdAng]
      ELSE IF limits.max_angle.has /\ a > limits.max_angle.v
        THEN [s0 EXCEPT !.violation_type = V_SOFTWARE_MAX,
                        !.limit_value = limits.max_angle, !.sent = rdAng]
      ELSE IF ~env.prot.ok
        THEN [s1 EXCEPT !.read_failed = TRUE, !.sent = rdProt]
      ELSE IF env.prot.v # 0
        THEN [s2 EXCEPT !.violation_type = V_STALL_DETECTED, !.sent = rdProt]
      ELSE IF limits.has_hardware_limits /\ ~env.sw.ok
        THEN [s2 EXCEPT !.read_failed = TRUE, !.sent = rdIo]
      ELSE IF limits.has_hardware_limits /\ env.sw.v # 0
        THEN [s2 EXCEPT !.violation_type = V_HARDWARE_LIMIT, !.sent = rdIo]
      ELSE IF ~env.err.ok
        THEN [s2 EXCEPT !.read_failed = TRUE, !.sent = rdErr]
      ELSE IF Abs(env.err.v) > limits.max_following_error
        THEN [s2 EXCEPT !.violation_type = V_FOLLOWING_ERROR,
                        !.axis_error = env.err.v, !.sent = rdErr]
      ELSE [s2 EXCEPT !.axis_error = env.err.v, !.sent = rdErr]

\* LimitProtectionSystem.check_limits(motor_name), the drives answering env.
\* sent: the read frames it put on the bus; read_failed: the except branch ran
CheckLimits(enabled, limits, env) ==
  IF ~enabled THEN EmptyStatus
  ELSE
  LET rdAng == <<Fr(limits.addr, OP_READ_ANGLE, 0, 0)>>
      rdIo == rdAng \o <<Fr(limits.addr, OP_READ_IO, 0, 0)>>
      afterIo == IF limits.has_hardware_limits THEN rdIo ELSE rdAng
      rdProt == afterIo \o <<Fr(limits.addr, OP_READ_PROTECT, 0, 0)>>
      rdErr == rdProt \o <<Fr(limits.addr, OP_READ_ERROR, 0, 0)>>
      a == env.ang.v
      warn == WarningZone(limits, a)
      s0 == [EmptyStatus EXCEPT !.current_angle = Some(a)]
      s1 == [s0 EXCEPT !.in_warning_zone = warn]
  IN  IF ~env.ang.ok
        THEN [EmptyStatus EXCEPT !.read_failed = TRUE, !.sent = rdAng]
      ELSE IF limits.min_angle.has /\ a < limits.min_angle.v
        THEN [s0 EXCEPT !.violation_type = V_SOFTWARE_MIN,
                        !.limit_value = limits.min_angle, !.sent = rdAng]
      ELSE IF limits.max_angle.has /\ a > limits.max_angle.v
        THEN [s0 EXCEPT !.violation_type = V_SOFTWARE_MAX,
                        !.limit_value = limits.max_angle, !.sent = rdAng]
      ELSE IF limits.has_hardware_limits /\ ~env.sw.ok
        THEN [s1 EXCEPT !.read_failed = TRUE, !.sent = rdIo]
      ELSE IF limits.has_hardware_limits /\ env.sw.v # 0
        THEN [s1 EXCEPT !.violation_type = V_HARDWARE_LIMIT, !.sent = rdIo]
      ELSE IF ~env.prot.ok
        THEN [s1 EXCEPT !.read_failed = TRUE, !.sent = rdProt]
      ELSE IF env.prot.v # 0
        THEN [s1 EXCEPT !.violation_type = V_STALL_DETECTED,
                        !.protect_flag = env.prot.v, !.sent = rdProt]
      ELSE IF ~env.err.ok
        THEN [s1 EXCEPT !.protect_flag = env.prot.v, !.read_failed = TRUE, !.sent = rdErr]
      ELSE IF Abs(env.err.v) > limits.max_following_error
        THEN [s1 EXCEPT !.violation_type = V_FOLLOWING_ERROR, !.protect_flag = env.prot.v,
                        !.axis_error = env.err.v, !.sent = rdErr]
      ELSE [s1 EXCEPT !.protect_flag = env.prot.v, !.axis_error = env.err.v, !.sent = rdErr]

\* (variant: validate_move that looks at the drive before it looks at the target)
ValidateMoveStatusFirst(enabled, limits, target, env) ==
  LET st == CheckLimits(enabled, limits, env) IN
  IF st.violation_type # V_NONE
    THEN [ok |-> FALSE, reason |-> "current violation", sent |-> st.sent]
  ELSE IF limits.min_angle.has /\ target < limits.min_angle.v
    THEN [ok |-> FALSE, reason |-> "below minimum", sent |-> st.sent]
  ELSE IF limits.max_angle.has /\ target > limits.max_angle.v
    THEN [ok |-> FALSE, reason |-> "above maximum", sent |-> st.sent]
  ELSE [ok |-> TRUE, reason |-> "Move validated", sent |-> st.sent]

\* LimitProtectionSystem.validate_move(motor_name, target_angle)
ValidateMove(enabled, limits, target, env) ==
  IF limits.min_angle.has /\ target < limits.min_angle.v
    THEN [ok |-> FALSE, reason |-> "below minimum", sent |-> <<>>]
  ELSE IF limits.max_angle.has /\ target > limits.max_angle.v
    THEN [ok |-> FALSE, reason |-> "above maximum", sent |-> <<>>]
  ELSE LET st == CheckLimits(enabled, limits, env) IN
       IF st.violation_type # V_NONE
         THEN [ok |-> FALSE, reason |-> "current violation", sent |-> st.sent]
         ELSE [ok |-> TRUE, reason |-> "Move validated", sent |-> st.sent]

\* LimitProtectionSystem.safe_move_to(motor_name, target_angle, speed_rpm, acc, force)
SafeMoveTo(enabled, limits, target, rpm, force, env) ==
  LET val == IF force THEN [ok |-> TRUE, reason |-> "", sent |-> <<>>]
             ELSE ValidateMove(enabled, limits, target, env)
      mv == Fr(limits.addr, OP_MOVE_ABS, rpm, DegreesToAxisTicks(target))
  IN  IF ~val.ok
        THEN [success |-> FALSE, msg |-> val.reason, sent |-> val.sent]
      ELSE IF env.cmd.ok
        THEN [success |-> TRUE, msg |-> "Moving", sent |-> Append(val.sent, mv)]
        ELSE [success |-> FALSE, msg |-> "Move failed", sent |-> Append(val.sent, mv)]

\* MKSServo57D.move_to_degrees as MotorController calls it on the unchecked path
MoveToDegrees(addr, target, rpm, env) ==
  [raised |-> IF env.cmd.ok THEN "" ELSE "MKSError",
   value |-> IF env.cmd.ok THEN env.cmd.v ELSE 0,
   msg |-> "",
   sent |-> <<Fr(addr, OP_MOVE_ABS, rpm, DegreesToAxisTicks(target))>>]

\* MotorController.move_azimuth / move_elevation / move_cross(target_deg, rpm, acc, safe)
MoveAxis(addrs, prot, enabled, lims, name, target, rpm, safe, env) ==
  IF safe /\ prot
    THEN LET r == SafeMoveTo(enabled, lims[name], target, rpm, FALSE, env) IN
         [raised |-> IF r.success THEN "" ELSE "ValueError",
          value |-> IF r.success THEN 1 ELSE 0,
          msg |-> IF r.success THEN "" ELSE r.msg,
          sent |-> r.sent]
    ELSE MoveToDegrees(addrs[name], target, rpm, env)

\* the axes a loop over the three motors reaches when the emergency stop of
\* axis number stopAt raises and nothing catches it (4: none raised)
FirstFailure(out) ==
  IF ~out[AxisNames[1]].ok THEN 1
  ELSE IF ~out[AxisNames[2]].ok THEN 2
  ELSE IF ~out[AxisNames[3]].ok THEN 3
  ELSE 4

\* (variant: emergency_stop_all with the try/except around the whole loop)
EmergencyStopAllProtectedAbort(lims, out) ==
  LET ff == FirstFailure(out)
      n == IF ff > 3 THEN 3 ELSE ff
  IN  [raised |-> "",
       results |-> [a \in {AxisNames[i] : i \in 1..n} |-> out[a].ok],
       sent |-> [i \in 1..n |-> Fr(lims[AxisNames[i]].addr, OP_EMERGENCY_STOP, 0, 0)]]

\* LimitProtectionSystem.emergency_stop_all(): try/except around each axis
EmergencyStopAllProtected(lims, out) ==
  [raised |-> "",
   results |-> [n \in AxisSet |-> out[n].ok],
   sent |-> [i \in 1..3 |-> Fr(lims[AxisNames[i]].addr, OP_EMERGENCY_STOP, 0, 0)]]

\* MotorController.emergency_stop_all(): a dict comprehension, nothing caught
EmergencyStopAll(addrs, out) ==
  LET ff == FirstFailure(out)
      n == IF ff > 3 THEN 3 ELSE ff
  IN  [raised |-> IF ff > 3 THEN "" ELSE "MKSError",
       results |-> IF ff > 3 THEN [a \in AxisSet |-> out[a].v] ELSE [a \in {} |-> 0],
       sent |-> [i \in 1..n |-> Fr(addrs[AxisNames[i]], OP_EMERGENCY_STOP, 0, 0)]]

\* (variant: a recovery that sends the release once more when it was not answered)
RecoverFromLimitRepeats(limits, status, o1, o2) ==
  LET rel == Fr(limits.addr, OP_RELEASE_PROTECT, 0, 0) IN
  IF o1.ok THEN [value |-> TRUE, sent |-> <<rel>>, sleeps |-> 1]
  ELSE [value |-> o2.ok, sent |-> <<rel, rel>>, sleeps |-> IF o2.ok THEN 1 ELSE 0]

\* (variant: a recovery that releases the protection although the emergency
\* stop before it raised)
RecoverFromLimitReleasesAnyway(limits, status, o1, o2) ==
  [value |-> o2.ok,
   sent |-> <<Fr(limits.addr, OP_EMERGENCY_STOP, 0, 0), Fr(limits.addr, OP_RELEASE_PROTECT, 0, 0)>>,
   sleeps |-> IF o1.ok THEN 1 ELSE 0]

\* LimitProtectionSystem.recover_from_limit(motor_name, status); o1 and o2 are
\* the outcomes of the first and the second transaction of the call.
\* sleeps: the time.sleep(0.1) calls that ran
RecoverFromLimit(limits, status, o1, o2) ==
  LET rel == Fr(limits.addr, OP_RELEASE_PROTECT, 0, 0)
      stop == Fr(limits.addr, OP_EMERGENCY_STOP, 0, 0)
      a == status.current_angle.v
      back(t) == <<Fr(limits.addr, OP_MOVE_ABS, limits.recovery_speed, DegreesToAxisTicks(t))>>
      v == status.violation_type
      none == [value |-> FALSE, sent |-> <<>>, sleeps |-> 0]
  IN  IF v = V_STALL_DETECTED
        THEN [value |-> o1.ok, sent |-> <<rel>>, sleeps |-> IF o1.ok THEN 1 ELSE 0]
      ELSE IF v \in {V_SOFTWARE_MIN, V_HARDWARE_LIMIT}
        THEN IF status.current_angle.has
               THEN [value |-> o1.ok, sent |-> back(a + limits.recovery_distance), sleeps |-> 0]
               ELSE none
      ELSE IF v = V_SOFTWARE_MAX
        THEN IF status.current_angle.has
               THEN [value |-> o1.ok, sent |-> back(a - limits.recovery_distance), sleeps |-> 0]
               ELSE none
      ELSE IF v = V_FOLLOWING_ERROR
        THEN IF o1.ok
               THEN [value |-> o2.ok, sent |-> <<stop, rel>>, sleeps |-> 1]
               ELSE [value |-> FALSE, sent |-> <<stop>>, sleeps |-> 0]
      ELSE none

\* ---- actions: one finished call each ----
\* a call that only reads: the answer to a command is no input
CheckEnvs == {e \in Envs : e.cmd = Failed}
MoveTargets == {-5, 45, 95}
MoveRpm == 400
StopOutcomes == [AxisSet -> {Failed, Got(0), Got(1)}]
NoEnv == [ang |-> Failed, sw |-> Failed, prot |-> Failed, err |-> Failed, cmd |-> Failed]
\* a call that reads nothing: only the answer to its command is an input
CmdEnvs == {[NoEnv EXCEPT !.cmd = c] : c \in {Failed, Got(0), Got(1)}}
NoOut == [n \in AxisSet |-> Failed]

Call(op, name, target, safe, env, out, r, results) ==
  [op |-> op, axis |-> name, target |-> target, safe |-> safe, env |-> env, out |-> out,
   raised |-> r.raised, value |-> r.value, msg |-> r.msg, results |-> results,
   sent |-> r.sent, status |-> EmptyStatus, sleeps |-> 0, nth |-> 0]

NoCall ==
  [op |-> "none", axis |-> "azimuth", target |-> 0, safe |-> TRUE, env |-> NoEnv, out |-> NoOut,
   raised |-> "", value |-> 0, msg |-> "", results |-> [a \in {} |-> 0], sent |-> <<>>,
   status |-> EmptyStatus, sleeps |-> 0, nth |-> 0]

\* mc.move_<axis>(target, rpm, safe=safe)
Move(name, target, safe, env) ==
  /\ mc.op = "none"
  /\ mc' = Call("move", name, target, safe, env, NoOut,
                MoveAxis(axisAddr, protOn, protEnabled, motors, name, target, MoveRpm, safe, env),
                [a \in {} |-> 0])
  /\ UNCHANGED <<axisAddr, protOn, protEnabled, motors>>
  /\ UNCHANGED notMove

\* mc.protection.safe_move_to(name, target, force=True): the other unchecked path
ForcedMove(name, target, env) ==
  /\ mc.op = "none"
  /\ protOn
  /\ LET r == SafeMoveTo(protEnabled, motors[name], target, MoveRpm, TRUE, env) IN
     mc' = Call("force", name, target, FALSE, env, NoOut,
                [raised |-> "", value |-> IF r.success THEN 1 ELSE 0, msg |-> r.msg,
                 sent |-> r.sent],
                [a \in {} |-> 0])
  /\ UNCHANGED <<axisAddr, protOn, protEnabled, motors>>
  /\ UNCHANGED notMove

\* mc.protection.emergency_stop_all()
StopAllProtected(out) ==
  /\ mc.op = "none"
  /\ protOn
  /\ LET r == EmergencyStopAllProtected(motors, out) IN
     mc' = Call("estop_prot", "azimuth", 0, FALSE, NoEnv, out,
                [raised |-> r.raised, value |-> 0, msg |-> "", sent |-> r.sent], r.results)
  /\ UNCHANGED <<axisAddr, protOn, protEnabled, motors>>
  /\ UNCHANGED notMove

\* mc.emergency_stop_all()
StopAll(out) ==
  /\ mc.op = "none"
  /\ LET r == EmergencyStopAll(axisAddr, out) IN
     mc' = Call("estop_all", "azimuth", 0, FALSE, NoEnv, out,
                [raised |-> r.raised, value |-> 0, msg |-> "", sent |-> r.sent], r.results)
  /\ UNCHANGED <<axisAddr, protOn, protEnabled, motors>>
  /\ UNCHANGED notMove

\* LimitProtectionSystem.enable(enabled)
ProtEnable(b) ==
  /\ mc.op = "none"
  /\ protOn
  /\ protEnabled' = b
  /\ UNCHANGED <<axisAddr, protOn, motors, mc>>
  /\ UNCHANGED notMove

\* LimitProtectionSystem.update_motor_limits(name, min_angle=.. / max_angle=..)
LimitUpdates == {None, Some(80)}

UpdateMotorLimits(name, key, val) ==
  /\ mc.op = "none"
  /\ protOn
  /\ motors' = [motors EXCEPT ![name] =
                  IF key = "min_angle" THEN [@ EXCEPT !.min_angle = val]
                  ELSE [@ EXCEPT !.max_angle = val]]
  /\ UNCHANGED <<axisAddr, protOn, protEnabled, mc>>
  /\ UNCHANGED notMove

\* mc.check_motor_limits(name) = mc.protection.check_limits(name)
CheckMotorLimits(name, env) ==
  /\ mc.op = "none"
  /\ protOn
  /\ LET st == CheckLimits(protEnabled, motors[name], env) IN
     mc' = [Call("check", name, 0, FALSE, env, NoOut,
                 [raised |-> "", value |-> 0, msg |-> "", sent |-> st.sent],
                 [a \in {} |-> 0]) EXCEPT !.status = st]
  /\ UNCHANGED <<axisAddr, protOn, protEnabled, motors>>
  /\ UNCHANGED notMove

\* mc.protection.validate_move(name, target): value 1 is (True, "Move validated")
ValidateCall(name, target, env) ==
  /\ mc.op = "none"
  /\ protOn
  /\ LET v == ValidateMove(protEnabled, motors[name], target, env) IN
     mc' = Call("validate", name, target, FALSE, env, NoOut,
                [raised |-> "", value |-> IF v.ok THEN 1 ELSE 0, msg |-> v.reason,
                 sent |-> v.sent],
                [a \in {} |-> 0])
  /\ UNCHANGED <<axisAddr, protOn, protEnabled, motors>>
  /\ UNCHANGED notMove

\* protection.recover_from_limit(name, status) with the status a check of the
\* axis returned (as test_stall_detection does), or once more with the same
RecoverCall(o1, o2) ==
  /\ mc.op \in {"check", "recover"}
  /\ mc.nth < 2
  /\ protOn
  /\ LET r == RecoverFromLimit(motors[mc.axis], mc.status, o1, o2) IN
     mc' = [Call("recover", mc.axis, 0, FALSE, [mc.env EXCEPT !.cmd = o1], NoOut,
                 [raised |-> "", value |-> IF r.value THEN 1 ELSE 0, msg |-> "",
                  sent |-> r.sent],
                 [a \in {} |-> 0])
            EXCEPT !.status = mc.status, !.sleeps = r.sleeps, !.nth = mc.nth + 1]
  /\ UNCHANGED <<axisAddr, protOn, protEnabled, motors>>
  /\ UNCHANGED notMove

\* the caller has its result (or its exception); the controller is idle again
CallReturns ==
  /\ mc.op # "none"
  /\ mc' = NoCall
  /\ UNCHANGED <<axisAddr, protOn, protEnabled, motors>>
  /\ UNCHANGED notMove

InitMove ==
  /\ axisAddr \in AddrConfigs
  /\ protOn \in BOOLEAN
  /\ protEnabled = TRUE
  /\ motors = DefaultMotors
  /\ mc = NoCall

NextMove ==
  \/ \E n \in AxisSet, t \in MoveTargets, e \in Envs : Move(n, t, TRUE, e)
  \/ \E n \in AxisSet, t \in MoveTargets, e \in CmdEnvs : Move(n, t, FALSE, e)
  \/ \E n \in AxisSet, t \in MoveTargets, e \in CmdEnvs : ForcedMove(n, t, e)
  \/ \E o \in StopOutcomes : StopAllProtected(o)
  \/ \E o \in StopOutcomes : StopAll(o)
  \/ \E b \in BOOLEAN : ProtEnable(b)
  \/ \E k \in {"min_angle", "max_angle"}, v \in LimitUpdates : UpdateMotorLimits("elevation", k, v)
  \/ CallReturns

\* the calls into the protection system: status checks, validation, recovery
NextProt ==
  \/ \E n \in AxisSet, e \in CheckEnvs : CheckMotorLimits(n, e)
  \/ \E e \in CheckEnvs : /\ e.sw = Got(1)
                          /\ CheckMotorLimits("azimuth", [e EXCEPT !.sw = Got(2)])
  \/ \E n \in AxisSet, t \in MoveTargets, e \in CheckEnvs : ValidateCall(n, t, e)
  \/ \E o1, o2 \in {Failed, Got(1)} : RecoverCall(o1, o2)
  \/ \E b \in BOOLEAN : ProtEnable(b)
  \/ \E k \in {"min_angle", "max_angle"}, v \in LimitUpdates \cup {Some(40), Some(45)} :
        UpdateMotorLimits("elevation", k, v)
  \/ CallReturns

-----------------------------------------------------------------------------
\* LimitProtectionSystem called from two threads.  The class holds no lock:
\* validate_move keeps a reference to the MotorLimits object of the axis and
\* reads its attributes at each comparison, update_motor_limits sets the
\* attributes of the same object one keyword after the other.  A thread can
\* be switched out wherever it blocks; the steps below are cut at the first
\* blocking read of the check (read_angle_degrees) and between two setattr.

\* the keyword arguments of one update_motor_limits call, in call order
LimitKwargs ==
  { <<[key |-> "min_angle", val |-> Some(5)], [key |-> "max_angle", val |-> Some(85)]>>,
    <<[key |-> "max_angle", val |-> Some(40)]>> }

NoCheck ==
  [pc |-> "idle", axis |-> "azimuth", target |-> 0, env |-> NoEnv, seen |-> <<>>,
   ok |-> FALSE, reason |-> "", sent |-> <<>>]

NoUpdate == [pc |-> "idle", axis |-> "azimuth", todo |-> <<>>]

\* validate_move up to the call of check_limits: the target against the limits
ValidateBegin(name, target, env) ==
  /\ chk.pc = "idle"
  /\ protOn
  /\ LET limits == motors[name]
         c == [NoCheck EXCEPT !.axis = name, !.target = target, !.env = env,
                              !.seen = <<limits>>]
     IN  chk' = IF limits.min_angle.has /\ target < limits.min_angle.v
                  THEN [c EXCEPT !.pc = "done", !.reason = "below minimum"]
                ELSE IF limits.max_angle.has /\ target > limits.max_angle.v
                  THEN [c EXCEPT !.pc = "done", !.reason = "above maximum"]
                ELSE [c EXCEPT !.pc = "read"]
  /\ UNCHANGED <<motors, upd>>
  /\ UNCHANGED notShared

\* check_limits after read_angle_degrees answered, and the rest of validate_move
ValidateEnd ==
  /\ chk.pc = "read"
  /\ LET limits == motors[chk.axis]
         st == CheckLimits(protEnabled, limits, chk.env)
     IN  chk' = [chk EXCEPT !.pc = "done",
                            !.seen = IF protEnabled THEN Append(@, limits) ELSE @,
                            !.ok = (st.violation_type = V_NONE),
                            !.reason = IF st.violation_type = V_NONE THEN "Move validated"
                                       ELSE "current violation",
                            !.sent = st.sent]
  /\ UNCHANGED <<motors, upd>>
  /\ UNCHANGED notShared

\* the caller of validate_move has its answer
ValidateReturns ==
  /\ chk.pc = "done"
  /\ chk' = NoCheck
  /\ UNCHANGED <<motors, upd>>
  /\ UNCHANGED notShared

\* update_motor_limits(name, **kwargs) up to the loop over its arguments
UpdateBegin(name, kwargs) ==
  /\ upd.pc = "idle"
  /\ protOn
  /\ upd' = [pc |-> "set", axis |-> name, todo |-> kwargs]
  /\ UNCHANGED <<motors, chk>>
  /\ UNCHANGED notShared

\* one round of the loop: setattr(limits, key, value); the call ends with the last
UpdateSet ==
  /\ upd.pc = "set"
  /\ LET kv == Head(upd.todo) IN
     motors' = [motors EXCEPT ![upd.axis] =
                  IF kv.key = "min_angle" THEN [@ EXCEPT !.min_angle = kv.val]
                  ELSE [@ EXCEPT !.max_angle = kv.val]]
  /\ upd' = IF Len(upd.todo) = 1 THEN NoUpdate ELSE [upd EXCEPT !.todo = Tail(@)]
  /\ UNCHANGED chk
  /\ UNCHANGED notShared

InitShared ==
  /\ chk = NoCheck
  /\ upd = NoUpdate

NextShared ==
  \/ \E t \in MoveTargets, e \in CheckEnvs : ValidateBegin("elevation", t, e)
  \/ ValidateEnd
  \/ ValidateReturns
  \/ \E kw \in LimitKwargs : UpdateBegin("elevation", kw)
  \/ UpdateSet

-----------------------------------------------------------------------------
\* TrackingController (tracking_controller.py) on the asyncio event loop.
\* Angles are in tenths of a degree, velocities in tenths of a degree per
\* second. A task runs without interruption from one await to the next; each
\* action below is one such stretch.

\* Bound: how many _tracking_loop tasks start() may create
MaxLoops == 2

\* the axes add_axis registered, in dict order (two of the mount's three)
TrackAxes == <<"AZ", "EL">>
NumAxes == Len(TrackAxes)
TrackAxisSet == {TrackAxes[i] : i \in 1..NumAxes}

\* AxisTrackingState thresholds (tenths), the gain and the limits of the control law
TRACK_ERROR_THRESHOLD == 20
HOLD_ERROR_THRESHOLD == 5
VELOCITY_THRESHOLD == 1
K_P == 10
MAX_SPEED_RPM == 3000
SPEED_DEADBAND == 5

\* AxisTrackingState.__init__
NewAxisState ==
  [mode |-> "idle", target_deg |-> 0, target_velocity_dps |-> 0,
   actual_deg |-> 0, actual_velocity_dps |-> 0, error_deg |-> 0,
   last_position |-> None, speed_rpm |-> 0]

\* int(): truncation toward zero of n/d, d > 0
TruncDiv(n, d) == IF n >= 0 THEN n \div d ELSE -((-n) \div d)

\* AxisTrackingState.update_actual(position_deg, timestamp); dt is
\* timestamp - last_timestamp in seconds. error_deg is not touched.
UpdateActual(st, position_deg, dt) ==
  [st EXCEPT !.actual_deg = position_deg,
             !.actual_velocity_dps =
                IF st.last_position.has /\ dt > 0
                  THEN (position_deg - st.last_position.v) \div dt
                  ELSE @,
             !.last_position = Some(position_deg)]

\* AxisTrackingState.update_target(target_deg, target_velocity_dps)
UpdateTarget(st, target_deg, velocity_dps) ==
  [st EXCEPT !.target_deg = target_deg,
             !.target_velocity_dps = velocity_dps,
             !.error_deg = target_deg - st.actual_deg]

\* AxisTrackingState.calculate_control_speed(): total_rpm is
\* K_P * error_deg + target_velocity_dps * 60/360, here times 60 in tenths
TotalRpm60(st) == 6 * K_P * st.error_deg + st.target_velocity_dps

\* (variant: the speed is not capped)
CalculateControlSpeedNoCap(st) ==
  [dir_ccw |-> TotalRpm60(st) > 0,
   speed_rpm |-> Abs(TruncDiv(TotalRpm60(st), 60))]

CalculateControlSpeed(st) ==
  LET rpm == Abs(TruncDiv(TotalRpm60(st), 60)) IN
  [dir_ccw |-> TotalRpm60(st) > 0,
   speed_rpm |-> IF rpm < MAX_SPEED_RPM THEN rpm ELSE MAX_SPEED_RPM]

\* determine_mode with the thresholds taken as inclusive
DetermineModeInclusive(st) ==
  LET abs_error == Abs(st.error_deg)
      abs_target_vel == Abs(st.target_velocity_dps)
      abs_actual_vel == Abs(st.actual_velocity_dps)
  IN  IF abs_error >= TRACK_ERROR_THRESHOLD THEN "track_speed"
      ELSE IF abs_target_vel >= VELOCITY_THRESHOLD THEN "track_speed"
      ELSE IF abs_error >= HOLD_ERROR_THRESHOLD /\ abs_actual_vel >= VELOCITY_THRESHOLD
        THEN "correcting"
      ELSE IF abs_error < HOLD_ERROR_THRESHOLD /\ abs_actual_vel < VELOCITY_THRESHOLD
        THEN "hold"
      ELSE "track_position"

\* AxisTrackingState.determine_mode()
DetermineMode(st) ==
  LET abs_error == Abs(st.error_deg)
      abs_target_vel == Abs(st.target_velocity_dps)
      abs_actual_vel == Abs(st.actual_velocity_dps)
  IN  IF abs_error > TRACK_ERROR_THRESHOLD THEN "track_speed"
      ELSE IF abs_target_vel > VELOCITY_THRESHOLD THEN "track_speed"
      ELSE IF abs_error > HOLD_ERROR_THRESHOLD /\ abs_actual_vel > VELOCITY_THRESHOLD
        THEN "correcting"
      ELSE IF abs_error <= HOLD_ERROR_THRESHOLD /\ abs_actual_vel <= VELOCITY_THRESHOLD
        THEN "hold"
      ELSE "track_position"

\* a bus command a tracking pass is about to issue; sets_speed: speed_rpm is
\* assigned once the command has returned
NoCmd == [kind |-> "none", rpm |-> 0, ccw |-> FALSE, sets_speed |-> FALSE]
RunCmd(c) == [kind |-> "run", rpm |-> c.speed_rpm, ccw |-> c.dir_ccw, sets_speed |-> TRUE]
StopCmd == [kind |-> "stop", rpm |-> 0, ccw |-> FALSE, sets_speed |-> TRUE]
EstopCmd == [kind |-> "estop", rpm |-> 0, ccw |-> FALSE, sets_speed |-> TRUE]
MoveCmd == [kind |-> "move", rpm |-> 10, ccw |-> FALSE, sets_speed |-> FALSE]

\* TrackingController._transition_mode(axis_state, new_mode): the command it issues
TransitionMode(st, new_mode) ==
  IF new_mode = "track_speed" THEN
    LET c == CalculateControlSpeed(st) IN
    IF c.speed_rpm > 0 THEN RunCmd(c) ELSE NoCmd
  ELSE IF new_mode = "hold" THEN StopCmd
  ELSE IF new_mode = "idle" THEN EstopCmd
  ELSE NoCmd

\* TrackingController._execute_mode(axis_state): the command it issues
ExecuteMode(st) ==
  IF st.mode = "track_speed" THEN
    LET c == CalculateControlSpeed(st) IN
    IF Abs(c.speed_rpm - st.speed_rpm) > SPEED_DEADBAND \/ c.speed_rpm = 0
      THEN IF c.speed_rpm > 0 THEN RunCmd(c) ELSE StopCmd
      ELSE NoCmd
  ELSE IF st.mode = "correcting" THEN MoveCmd
  ELSE NoCmd

\* what the last frame written to a drive was
Sent(cmd) == [kind |-> cmd.kind, rpm |-> cmd.rpm, ccw |-> cmd.ccw]
NothingSent == Sent(NoCmd)

\* tasks of the event loop
LoopIds == 1..MaxLoops
LoopTask(i) == <<"loop", i>>
StopTask == <<"stop", 0>>
TeleTask == <<"tele", 0>>
NoTask == <<"none", 0>>

\* asyncio.Lock.release(): the lock goes to the longest waiting task, if any
ReleasedOwner == IF busWaiters = <<>> THEN NoTask ELSE Head(busWaiters)
ReleasedWaiters == IF busWaiters = <<>> THEN <<>> ELSE Tail(busWaiters)

\* a tracking-loop task at position pc, handling the ax-th axis
LoopAt(pc, ax) == [pc |-> pc, ax |-> ax, cmd |-> NoCmd, new_mode |-> "idle"]

\* what the drives answer to read_angle_degrees, and the seconds between two
\* timestamps of the same axis (0: taken at the same instant or out of order)
TrackPositions == {0}
TrackReads == {Failed} \cup {Got(p) : p \in TrackPositions}
TickDts == {0, 1}

\* the arguments of set_target in the model
TrackTargets == {0, 30}
TrackVelocities == {0}

\* TrackingController.start(): no check of a loop that already runs
StartCall ==
  /\ \E i \in LoopIds :
       /\ loops[i].pc = "off"
       /\ \A j \in LoopIds : j < i => loops[j].pc # "off"
       /\ loops' = [loops EXCEPT ![i] = LoopAt("top", 0)]
  /\ running' = TRUE
  /\ UNCHANGED <<busOwner, busWaiters, stopCall, axes, lastCmd, lastTick, tele, api>>
  /\ UNCHANGED notTrack

\* TrackingController.set_target(axis, target_deg, velocity_dps)
SetTarget(a, target_deg, velocity_dps) ==
  /\ axes' = [axes EXCEPT ![a] = UpdateTarget(@, target_deg, velocity_dps)]
  /\ axes' # axes
  /\ UNCHANGED <<running, busOwner, busWaiters, loops, stopCall, lastCmd, lastTick, tele, api>>
  /\ UNCHANGED notTrack

\* _tracking_loop: a new task, or one whose sleep has ended, tests
\* self.running and enters _update_all_axes up to the lock
LoopTop(i) ==
  /\ loops[i].pc = "top"
  /\ IF ~running
       THEN /\ loops' = [loops EXCEPT ![i] = LoopAt("done", 0)]
            /\ UNCHANGED <<busOwner, busWaiters>>
       ELSE IF busOwner = NoTask
         THEN /\ busOwner' = LoopTask(i)
              /\ loops' = [loops EXCEPT ![i] = LoopAt("reading", 1)]
              /\ UNCHANGED busWaiters
         ELSE /\ busWaiters' = Append(busWaiters, LoopTask(i))
              /\ loops' = [loops EXCEPT ![i] = LoopAt("wait", 0)]
              /\ UNCHANGED busOwner
  /\ UNCHANGED <<running, stopCall, axes, lastCmd, lastTick, tele, api>>
  /\ UNCHANGED notTrack

\* _update_all_axes: the waiting task got the lock and submits the first read
LoopGranted(i) ==
  /\ loops[i].pc = "wait"
  /\ busOwner = LoopTask(i)
  /\ loops' = [loops EXCEPT ![i] = LoopAt("reading", 1)]
  /\ UNCHANGED <<running, busOwner, busWaiters, stopCall, axes, lastCmd, lastTick, tele, api>>
  /\ UNCHANGED notTrack

\* _update_all_axes: on to the next axis (its read is submitted), or the end
\* of the pass: the lock is released and the task sleeps
LoopAdvance(i) ==
  IF loops[i].ax < NumAxes
    THEN /\ loops' = [loops EXCEPT ![i] = LoopAt("reading", loops[i].ax + 1)]
         /\ UNCHANGED <<busOwner, busWaiters>>
    ELSE /\ loops' = [loops EXCEPT ![i] = LoopAt("top", 0)]
         /\ busOwner' = ReleasedOwner
         /\ busWaiters' = ReleasedWaiters

\* _update_all_axes: read_angle_degrees has returned r; update_actual,
\* determine_mode, and _transition_mode / _execute_mode up to their await
LoopReadEnd(i, r, dt) ==
  /\ loops[i].pc = "reading"
  /\ LET a == TrackAxes[loops[i].ax] IN
     IF ~r.ok
       THEN /\ lastTick' = [axis |-> a, read |-> "failed"]
            /\ UNCHANGED axes
            /\ LoopAdvance(i)
       ELSE LET st == UpdateActual(axes[a], r.v, dt)
                new_mode == DetermineMode(st)
                cmd == IF new_mode # st.mode THEN TransitionMode(st, new_mode)
                                             ELSE ExecuteMode(st)
            IN  /\ lastTick' = [axis |-> a, read |-> "ok"]
                /\ IF cmd.kind = "none"
                     THEN /\ axes' = [axes EXCEPT ![a] = [st EXCEPT !.mode = new_mode]]
                          /\ LoopAdvance(i)
                     ELSE /\ axes' = [axes EXCEPT ![a] = st]
                          /\ loops' = [loops EXCEPT ![i] =
                                [pc |-> "cmd", ax |-> @.ax, cmd |-> cmd, new_mode |-> new_mode]]
                          /\ UNCHANGED <<busOwner, busWaiters>>
  /\ UNCHANGED <<running, stopCall, lastCmd, tele, api>>
  /\ UNCHANGED notTrack

\* _transition_mode / _execute_mode: the command has returned (ok) or raised;
\* then speed_rpm and "axis_state.mode = new_mode", or the except branch
LoopCmdEnd(i, ok) ==
  /\ loops[i].pc = "cmd"
  /\ LET a == TrackAxes[loops[i].ax]
         c == loops[i].cmd
     IN  /\ lastCmd' = [lastCmd EXCEPT ![a] = Sent(c)]
         /\ axes' = IF ok
                      THEN [axes EXCEPT ![a].speed_rpm = IF c.sets_speed THEN c.rpm ELSE @,
                                        ![a].mode = loops[i].new_mode]
                      ELSE axes
  /\ LoopAdvance(i)
  /\ UNCHANGED <<running, stopCall, lastTick, tele, api>>
  /\ UNCHANGED notTrack

\* TrackingController.stop() up to its first await
StopCall ==
  /\ stopCall.pc = "idle"
  /\ running' = FALSE
  /\ IF busOwner = NoTask
       THEN /\ busOwner' = StopTask
            /\ stopCall' = [pc |-> "xfer", ax |-> 1]
            /\ UNCHANGED busWaiters
       ELSE /\ busWaiters' = Append(busWaiters, StopTask)
            /\ stopCall' = [pc |-> "wait", ax |-> 1]
            /\ UNCHANGED busOwner
  /\ UNCHANGED <<loops, axes, lastCmd, lastTick, tele, api>>
  /\ UNCHANGED notTrack

\* stop(): the lock was granted, stop_speed_mode is submitted
StopGranted ==
  /\ stopCall.pc = "wait"
  /\ busOwner = StopTask
  /\ stopCall' = [stopCall EXCEPT !.pc = "xfer"]
  /\ UNCHANGED <<running, busOwner, busWaiters, loops, axes, lastCmd, lastTick, tele, api>>
  /\ UNCHANGED notTrack

\* stop(): stop_speed_mode has returned or raised (caught); the lock is
\* released and taken again for the next axis, or stop() returns
StopXferEnd ==
  /\ stopCall.pc = "xfer"
  /\ lastCmd' = [lastCmd EXCEPT ![TrackAxes[stopCall.ax]] = Sent(StopCmd)]
  /\ IF stopCall.ax < NumAxes
       THEN IF busWaiters = <<>>
              THEN /\ stopCall' = [pc |-> "xfer", ax |-> stopCall.ax + 1]
                   /\ UNCHANGED <<busOwner, busWaiters>>
              ELSE /\ stopCall' = [pc |-> "wait", ax |-> stopCall.ax + 1]
                   /\ busOwner' = ReleasedOwner
                   /\ busWaiters' = Append(ReleasedWaiters, StopTask)
       ELSE /\ stopCall' = [pc |-> "idle", ax |-> 0]
            /\ busOwner' = ReleasedOwner
            /\ busWaiters' = ReleasedWaiters
  /\ UNCHANGED <<running, loops, axes, lastTick, tele, api>>
  /\ UNCHANGED notTrack

\* HardwareManager._get_servo_telemetry up to the lock and the first read
TelePoll ==
  /\ tele.pc = "idle"
  /\ IF busOwner = NoTask
       THEN /\ busOwner' = TeleTask
            /\ tele' = [pc |-> "angle", ax |-> 1]
            /\ UNCHANGED busWaiters
       ELSE /\ busWaiters' = Append(busWaiters, TeleTask)
            /\ tele' = [pc |-> "wait", ax |-> 1]
            /\ UNCHANGED busOwner
  /\ UNCHANGED <<running, loops, stopCall, axes, lastCmd, lastTick, api>>
  /\ UNCHANGED notTrack

\* _get_servo_telemetry: the lock was granted, the first read is submitted
TeleGranted ==
  /\ tele.pc = "wait"
  /\ busOwner = TeleTask
  /\ tele' = [tele EXCEPT !.pc = "angle"]
  /\ UNCHANGED <<running, busOwner, busWaiters, loops, stopCall, axes, lastCmd, lastTick, api>>
  /\ UNCHANGED notTrack

\* _get_servo_telemetry: one read has returned (ok) or raised: angle, then
\* read_io and read_protect_status (best effort), then the next axis
TeleReadEnd(ok) ==
  /\ tele.pc \in {"angle", "io", "prot"}
  /\ IF tele.pc = "angle" /\ ok
       THEN tele' = [tele EXCEPT !.pc = "io"] /\ UNCHANGED <<busOwner, busWaiters>>
     ELSE IF tele.pc = "io"
       THEN tele' = [tele EXCEPT !.pc = "prot"] /\ UNCHANGED <<busOwner, busWaiters>>
     ELSE IF tele.ax < NumAxes
       THEN tele' = [pc |-> "angle", ax |-> tele.ax + 1] /\ UNCHANGED <<busOwner, busWaiters>>
     ELSE /\ tele' = [pc |-> "idle", ax |-> 0]
          /\ busOwner' = ReleasedOwner
          /\ busWaiters' = ReleasedWaiters
  /\ UNCHANGED <<running, loops, stopCall, axes, lastCmd, lastTick, api>>
  /\ UNCHANGED notTrack

\* POST /{axis}/stop (stop_servo): emergency_stop is submitted, no lock taken
ApiStop(n) ==
  /\ api.pc = "idle"
  /\ api' = [pc |-> "xfer", ax |-> n, all |-> FALSE]
  /\ UNCHANGED <<running, busOwner, busWaiters, loops, stopCall, axes, lastCmd, lastTick, tele>>
  /\ UNCHANGED notTrack

\* POST /stop-all (stop_all_servos): the first emergency_stop is submitted,
\* no lock taken
ApiStopAll ==
  /\ api.pc = "idle"
  /\ api' = [pc |-> "xfer", ax |-> 1, all |-> TRUE]
  /\ UNCHANGED <<running, busOwner, busWaiters, loops, stopCall, axes, lastCmd, lastTick, tele>>
  /\ UNCHANGED notTrack

\* stop_servo / stop_all_servos: emergency_stop has returned (ok) or raised;
\* stop-all goes on to the next address only after a success
ApiXferEnd(ok) ==
  /\ api.pc = "xfer"
  /\ lastCmd' = [lastCmd EXCEPT ![TrackAxes[api.ax]] = Sent(EstopCmd)]
  /\ api' = IF api.all /\ ok /\ api.ax < NumAxes
              THEN [api EXCEPT !.ax = @ + 1]
              ELSE [pc |-> "idle", ax |-> 0, all |-> FALSE]
  /\ UNCHANGED <<running, busOwner, busWaiters, loops, stopCall, axes, lastTick, tele>>
  /\ UNCHANGED notTrack

\* the bus users whose transaction is running in a worker thread
InFlight ==
  {LoopTask(i) : i \in {j \in LoopIds : loops[j].pc \in {"reading", "cmd"}}}
    \cup (IF stopCall.pc = "xfer" THEN {StopTask} ELSE {})
    \cup (IF tele.pc \in {"angle", "io", "prot"} THEN {TeleTask} ELSE {})
    \cup (IF api.pc = "xfer" THEN {<<"api", 0>>} ELSE {})

\* TrackingController.__init__ and add_axis, HardwareManager.__init__
InitTrack ==
  /\ running = FALSE
  /\ busOwner = NoTask
  /\ busWaiters = <<>>
  /\ loops = [i \in LoopIds |-> LoopAt("off", 0)]
  /\ stopCall = [pc |-> "idle", ax |-> 0]
  /\ axes = [a \in TrackAxisSet |-> NewAxisState]
  /\ lastCmd = [a \in TrackAxisSet |-> NothingSent]
  /\ lastTick = [axis |-> TrackAxes[1], read |-> "none"]
  /\ tele = [pc |-> "idle", ax |-> 0]
  /\ api = [pc |-> "idle", ax |-> 0, all |-> FALSE]

LoopNext ==
  \/ StartCall
  \/ \E i \in LoopIds : LoopTop(i)
  \/ \E i \in LoopIds : LoopGranted(i)
  \/ \E i \in LoopIds, r \in TrackReads, dt \in TickDts : LoopReadEnd(i, r, dt)
  \/ \E i \in LoopIds, ok \in BOOLEAN : LoopCmdEnd(i, ok)

NextTrack ==
  \/ LoopNext
  \/ \E a \in TrackAxisSet, t \in TrackTargets, v \in TrackVelocities : SetTarget(a, t, v)
  \/ StopCall
  \/ StopGranted
  \/ StopXferEnd

\* one tracking loop alone on the bus, a mount that moves between two reads
\* of an axis (0.0 and 1.0 degrees) and a caller that retargets azimuth
NextTick ==
  \/ (loops[1].pc = "off" /\ StartCall)
  \/ LoopTop(1)
  \/ \E r \in {Failed, Got(0), Got(10)}, dt \in TickDts : LoopReadEnd(1, r, dt)
  \/ \E ok \in BOOLEAN : LoopCmdEnd(1, ok)
  \/ \E tv \in {<<0, 0>>, <<15, 0>>, <<30, 0>>, <<0, 2>>, <<20, 2>>} : SetTarget("AZ", tv[1], tv[2])

NextBus ==
  \/ LoopNext
  \/ TelePoll
  \/ TeleGranted
  \/ \E ok \in BOOLEAN : TeleReadEnd(ok)
  \/ \E n \in 1..NumAxes : ApiStop(n)
  \/ ApiStopAll
  \/ \E ok \in BOOLEAN : ApiXferEnd(ok)

-----------------------------------------------------------------------------
\* Functions that keep no state: each action is one call by the one caller,
\* its arguments drawn from a small set, its result kept in calc.out until
\* the caller has taken it

NoCalc == [op |-> "none"]

\* AxisTrackingState.determine_mode() on a state whose error and velocities
\* sit on, next to and away from the thresholds (tenths of a degree, tenths
\* of a degree per second); mode and target are what the call found
DetermineModeCall(st) ==
  /\ calc = NoCalc
  /\ calc' = [op |-> "determine_mode", in |-> st, out |-> DetermineMode(st)]
  /\ UNCHANGED notCalc

\* the caller takes the result
CalcReturns ==
  /\ calc # NoCalc
  /\ calc' = NoCalc
  /\ UNCHANGED notCalc

\* struct.pack(">H" / ">I" / ">i", x): the n bytes of x modulo 256^n, most
\* significant first (_pack_u16 and _pack_u32 mask, _pack_i32 is two's complement)
PackBE(x, n) == [i \in 1..n |-> (x \div (256 ^ (n - i))) % 256]

\* MKSServo57D._pack_speed_dir(dir_ccw, speed_rpm)
PackSpeedDir(dir_ccw, speed_rpm) ==
  LET s == IF speed_rpm > 3000 THEN 3000 ELSE IF speed_rpm < 0 THEN 0 ELSE speed_rpm
      rev_bit == IF dir_ccw THEN 128 ELSE 0
      hi == (s \div 16) % 128
      lo == (s % 16) * 16
  IN  <<rev_bit + hi, lo>>

\* the data bytes of the motion commands that carry a speed: run_speed_mode
\* (F6), run_position_rel_pulses (FD), run_position_abs_pulses (FE),
\* move_axis_relative (F4), move_axis_absolute (F5); move_relative_degrees
\* and move_to_degrees are F4 and F5 with the ticks of the angle
MotionData(code, dir_ccw, speed_rpm, acc, n) ==
  IF code = 246 THEN PackSpeedDir(dir_ccw, speed_rpm) \o <<acc % 256>>
  ELSE IF code = 253
    THEN PackSpeedDir(dir_ccw, speed_rpm) \o <<acc % 256>> \o PackBE(n, 4)
  ELSE PackBE(speed_rpm, 2) \o <<acc % 256>> \o PackBE(n, 4)

\* the speed a data field carries: 16 bits big-endian in F4, F5 and FE;
\* seven bits of the first byte above the high nibble of the second in F6
\* and FD, as _pack_speed_dir lays them out
SpeedOf(code, data) ==
  IF code \in {246, 253} THEN (data[1] % 128) * 16 + data[2] \div 16
  ELSE data[1] * 256 + data[2]

\* one motion command: the frame's data as handed to _xfer
MotionCall(code, dir_ccw, speed_rpm, n) ==
  /\ calc = NoCalc
  /\ calc' = [op |-> "motion", in |-> [code |-> code, dir_ccw |-> dir_ccw,
                                       speed_rpm |-> speed_rpm, n |-> n],
              out |-> MotionData(code, dir_ccw, speed_rpm, 50, n)]
  /\ UNCHANGED notCalc

\* the index set_hold_current_percent(addr, percent_10_to_90) sends with 0x9B
HoldCurrentIndex(percent) ==
  IF percent <= 0 THEN 0
  ELSE LET i == RoundHalfEven(percent, 10) - 1
       IN  IF i > 8 THEN 8 ELSE IF i < 0 THEN 0 ELSE i

\* MKSServo57D.set_hold_current_percent: the data byte handed to _xfer
SetHoldCurrentCall(percent) ==
  /\ calc = NoCalc
  /\ calc' = [op |-> "set_hold_current_percent", in |-> percent,
              out |-> <<HoldCurrentIndex(percent) % 256>>]
  /\ UNCHANGED notCalc

\* (variant of _recv: the scan goes on while bytes arrive and returns the
\* longest prefix that ends in its checksum)
RecvFromLongest(buf, expect_code, expect_addr) ==
  IF Len(buf) < 3 THEN Raise("NoResponse", "header")
  ELSE LET h == SubSeq(buf, 1, 3)
           exp == ExpectLen(h[3])
           ends == {k \in 4..Len(buf) : ChecksumOk(SubSeq(buf, 1, k))}
       IN  IF h[1] # UP_HDR THEN Raise("ProtocolError", "header")
           ELSE IF ~AddrMatches(h, expect_addr) THEN Raise("ProtocolError", "addr")
           ELSE IF exp = 0
             THEN IF ends = {} THEN Raise("NoResponse", "scan")
                  ELSE IF ~CodeMatches(h, expect_code) THEN Raise("ProtocolError", "fn")
                  ELSE Returns(SubSeq(buf, 1, CHOOSE k \in ends : \A j \in ends : k >= j))
           ELSE IF Len(buf) < exp THEN Raise("NoResponse", "short")
           ELSE IF ~ChecksumOk(SubSeq(buf, 1, exp)) THEN Raise("ChecksumError", "checksum")
           ELSE IF ~CodeMatches(h, expect_code) THEN Raise("ProtocolError", "fn")
           ELSE Returns(SubSeq(buf, 1, exp))

\* MKSServo57D._recv(expect_code, expect_addr) when exactly the bytes of
\* buf arrive and the line is silent after them (every further read times out)
RecvFrom(buf, expect_code, expect_addr) ==
  IF Len(buf) < 3 THEN Raise("NoResponse", "header")
  ELSE LET h == SubSeq(buf, 1, 3)
           exp == ExpectLen(h[3])
           \* the lengths at which the scan finds its candidate checksum-valid
           ends == {k \in 4..Len(buf) : ChecksumOk(SubSeq(buf, 1, k))}
       IN  IF h[1] # UP_HDR THEN Raise("ProtocolError", "header")
           ELSE IF ~AddrMatches(h, expect_addr) THEN Raise("ProtocolError", "addr")
           ELSE IF exp = 0
             THEN IF ends = {} THEN Raise("NoResponse", "scan")
                  ELSE IF ~CodeMatches(h, expect_code) THEN Raise("ProtocolError", "fn")
                  ELSE Returns(SubSeq(buf, 1, CHOOSE k \in ends : \A j \in ends : k <= j))
           ELSE IF Len(buf) < exp THEN Raise("NoResponse", "short")
           ELSE IF ~ChecksumOk(SubSeq(buf, 1, exp)) THEN Raise("ChecksumError", "checksum")
           ELSE IF ~CodeMatches(h, expect_code) THEN Raise("ProtocolError", "fn")
           ELSE Returns(SubSeq(buf, 1, exp))

\* the frame of (addr, code, data) with header byte h, handed to _recv as the
\* reply awaited for that code from that address: h = DOWN_HDR is the frame
\* _frame builds, h = UP_HDR the same frame as a drive sends it
FrameRecvCall(h, addr, code, data) ==
  /\ calc = NoCalc
  /\ LET sent == IF h = DOWN_HDR THEN Frame(addr, code, data)
                 ELSE UpFrame(addr, code, data)
     IN  calc' = [op |-> "recv", in |-> [hdr |-> h, addr |-> addr, code |-> code,
                                        data |-> data],
                  out |-> RecvFrom(sent, code, addr)]
  /\ UNCHANGED notCalc

\* degrees_to_axis_ticks(deg) for the angle num/den degrees
DegreesToAxisTicksFrac(num, den) == RoundHalfEven(num * TICKS_PER_REV, 360 * den)

\* (variant: the division by TICKS_PER_REV done on integers)
AxisTicksToDegreesIntDiv(axis) == [num |-> (axis \div TICKS_PER_REV) * 360, den |-> 1]

\* axis_ticks_to_degrees(axis): the angle as the fraction num/den of a degree
AxisTicksToDegrees(axis) == [num |-> axis * 360, den |-> TICKS_PER_REV]

\* axis_ticks_to_degrees(degrees_to_axis_ticks(deg)), deg = num/den
DegreesRoundTripCall(num, den) ==
  /\ calc = NoCalc
  /\ calc' = [op |-> "degrees_round_trip", in |-> [num |-> num, den |-> den],
              out |-> AxisTicksToDegrees(DegreesToAxisTicksFrac(num, den))]
  /\ UNCHANGED notCalc

\* AxisTrackingState.calculate_control_speed() and the data of the F6 frame
\* the tracking loop makes of it: run_speed_mode(addr, dir_ccw, speed_rpm,
\* 100) for a speed above 0, stop_speed_mode(addr, 50) for speed 0
ControlSpeedCall(st) ==
  /\ calc = NoCalc
  /\ LET c == CalculateControlSpeed(st) IN
     calc' = [op |-> "calculate_control_speed", in |-> st,
              out |-> [dir_ccw |-> c.dir_ccw, speed_rpm |-> c.speed_rpm,
                       data |-> IF c.speed_rpm > 0
                                  THEN MotionData(246, c.dir_ccw, c.speed_rpm, 100, 0)
                                  ELSE <<0, 0, 50>>]]
  /\ UNCHANGED notCalc

\* _recv awaiting a reply without a fixed length (read_version_info 0x40,
\* read_all_params 0x47) from addr: the header FB addr code arrives, then
\* the bytes rest, then nothing until the deadline
RecvScanCall(addr, code, rest) ==
  /\ calc = NoCalc
  /\ LET buf == <<UP_HDR, addr, code>> \o rest IN
     calc' = [op |-> "recv_scan", in |-> buf, out |-> RecvFrom(buf, code, addr)]
  /\ UNCHANGED notCalc

\* _pack_speed_dir called for two commands a and b (direction, RPM): the two
\* bytes each of them puts into its F6 or FD frame
PackSpeedDirCalls(a, b) ==
  /\ calc = NoCalc
  /\ calc' = [op |-> "pack_speed_dir", in |-> <<a, b>>,
              out |-> <<PackSpeedDir(a.dir_ccw, a.speed_rpm),
                        PackSpeedDir(b.dir_ccw, b.speed_rpm)>>]
  /\ UNCHANGED notCalc

InitCalc == calc = NoCalc

\* the caller is between two calls when it makes one
NextCalc ==
  \/ CalcReturns
  \/ /\ calc = NoCalc
     /\ \E e \in {-21, -20, -6, -5, 0, 5, 6, 20, 21}, tv \in {-2, -1, 0, 1, 2},
           av \in {-2, -1, 0, 1, 2}, m \in {"idle", "track_speed", "hold"} :
           DetermineModeCall([NewAxisState EXCEPT !.error_deg = e,
                                !.target_velocity_dps = tv,
                                !.actual_velocity_dps = av, !.mode = m])
  \/ /\ calc = NoCalc
     /\ \E c \in {244, 245, 246, 253, 254}, ccw \in BOOLEAN,
           rpm \in {-1, 0, 600, 2047, 3000, 3001, 5000}, n \in {-2048, 0, 2048} :
           MotionCall(c, ccw, rpm, n)
  \/ /\ calc = NoCalc
     /\ \E pc \in -5..105 : SetHoldCurrentCall(pc)
  \/ /\ calc = NoCalc
     /\ \E h \in {DOWN_HDR, UP_HDR}, a \in {1, 2}, c \in {49, 62, 64},
           dt \in {<<>>, <<0>>, <<60>>, <<0, 0>>, <<0, 60>>, <<60, 5>>,
                   <<1, 2, 3, 4, 5, 6>>, [i \in 1..34 |-> i]} :
           FrameRecvCall(h, a, c, dt)
  \/ /\ calc = NoCalc
     /\ \E n \in 0..35999 : DegreesRoundTripCall(n, 100)
  \/ /\ calc = NoCalc
     /\ \E a, b \in [dir_ccw : BOOLEAN,
                     speed_rpm : {0, 1, 15, 16, 952, 2047, 2048, 2049, 3000}] :
           PackSpeedDirCalls(a, b)
  \/ /\ calc = NoCalc
     /\ \E c \in {64, 71}, n \in 0..3 : \E rest \in [1..n -> {0, 60, 67, 120}] :
           RecvScanCall(1, c, rest)
  \/ /\ calc = NoCalc
     /\ \E e \in {-3600, -3001, -3000, -2048, -25, -1, 0, 1, 25, 2047, 2999, 3000, 3001, 3600},
           tv \in {-600, -61, -59, -2, 0, 2, 59, 61, 600} :
           ControlSpeedCall([NewAxisState EXCEPT !.error_deg = e,
                               !.target_velocity_dps = tv, !.mode = "track_speed"])

-----------------------------------------------------------------------------
Init == InitLink /\ InitMove /\ InitTrack /\ InitShared /\ InitCalc

\* the link layer and the backend do not go through MotorController: for
\* them the controller part stays in one of its initial states
InitBackend == Init /\ protOn /\ axisAddr = DefaultAddrs

SpecLink == InitBackend /\ [][NextLink]_vars

\* the link with one drive on the bus
NextLinkOne ==
  \/ \E c \in LinkOps : XferBegin(1, c)
  \/ SendReset
  \/ SendWrite
  \/ RecvHdr
  \/ RecvRest
  \/ RecvScanByte
  \/ RecvScanTimeout
  \/ DriveReply
  \/ Deliver

\* The running call goes on: no statement of _send and _recv waits longer
\* than the timeout of the serial port (DEFAULT_TIMEOUT, set by every
\* constructor call in the repository), and the scanning loop has a deadline.
\* The drives and the callers owe nothing.
SpecLinkFair ==
  /\ InitBackend /\ [][NextLinkOne]_vars
  /\ WF_vars(SendReset) /\ WF_vars(SendWrite)
  /\ WF_vars(RecvHdr) /\ WF_vars(RecvRest) /\ WF_vars(RecvScanTimeout)

SpecMove == Init /\ [][NextMove]_vars

SpecProt == InitBackend /\ [][NextProt]_vars

SpecShared == InitBackend /\ [][NextShared]_vars

SpecTrack == InitBackend /\ [][NextTrack]_vars

SpecBus == InitBackend /\ [][NextBus]_vars

SpecTick == InitBackend /\ [][NextTick]_vars

\* The tracking loop goes on: the task wakes from asyncio.sleep(period), a
\* read and a command return within the timeout of the serial port, and a
\* drive that is asked again and again answers again and again. The callers
\* of set_target owe nothing.
SpecTickFair ==
  /\ InitBackend /\ [][NextTick]_vars
  /\ WF_vars(LoopTop(1))
  /\ WF_vars(\E r \in {Failed, Got(0), Got(10)}, dt \in TickDts : LoopReadEnd(1, r, dt))
  /\ SF_vars(\E p \in {0, 10}, dt \in TickDts : loops[1].ax = 1 /\ LoopReadEnd(1, Got(p), dt))
  /\ WF_vars(\E ok \in BOOLEAN : LoopCmdEnd(1, ok))

SpecCalc == InitBackend /\ [][NextCalc]_vars

-----------------------------------------------------------------------------
\* Properties of the link layer (SpecLink)

\* C4: in every transaction the receive buffer is cleared before the request
\* frame is written, and no byte that arrived before that clearing is part of
\* the reply the transaction returns.
StaleBytesNeverReturned ==
  /\ (lpc \in {"write", "hdr", "rest", "scan"} => rxOld = 0)
  /\ (ret.kind = "frame" => ~usedOld)

\* C4 witness: a transaction returned a frame although its clearing threw away
\* bytes that had arrived earlier (the late reply of a timed-out transaction).
StaleBytesDroppedThenReply == ret.kind = "frame" /\ dropped > 0 /\ ntx = 2

\* C5: a frame returned by a transaction addressed to drive A carries address A;
\* an error carries no frame data.
ReplyAddressIsRequestAddress ==
  /\ (ret.kind = "frame" => ret.frame[2] = req.addr)
  /\ (ret.kind # "frame" => ret.frame = <<>>)

\* C5 witness: a complete header carrying another drive's address came in and
\* the transaction ended with the address error.
ForeignReplyRejected ==
  ret.kind = "ProtocolError" /\ ret.why = "addr" /\ lpc = "idle"

\* C6: every returned frame ends with the low 8 bits of the sum of the bytes
\* before it; a mismatching byte run returns no data.
ReturnedFrameChecksumValid ==
  /\ (ret.kind = "frame" =>
        /\ Len(ret.frame) >= 4
        /\ ret.frame[Len(ret.frame)] = SumSeq(SubSeq(ret.frame, 1, Len(ret.frame) - 1)) % 256)
  /\ (ret.kind = "ChecksumError" => ret.frame = <<>>)

\* C6 witness: a fixed-length reply with a wrong checksum byte was rejected.
BadChecksumRejected == ret.kind = "ChecksumError" /\ lpc = "idle"

-----------------------------------------------------------------------------
\* Properties of the controller and the limit protection (SpecMove)

TargetOutOfRange(lim, t) ==
  \/ (lim.min_angle.has /\ t < lim.min_angle.v)
  \/ (lim.max_angle.has /\ t > lim.max_angle.v)

HasMoveFrame(sent) == \E i \in 1..Len(sent) : sent[i].code = OP_MOVE_ABS

\* C2 (as claimed): every move with safe=True, however the controller was
\* constructed, runs validate_move before anything is sent, and sends no move
\* frame when validation fails.
SafeMoveAlwaysValidated ==
  (mc.op = "move" /\ mc.safe) =>
     LET v == ValidateMove(protEnabled, motors[mc.axis], mc.target, mc.env) IN
     /\ (~v.ok => ~HasMoveFrame(mc.sent))
     /\ Len(mc.sent) >= Len(v.sent)
     /\ SubSeq(mc.sent, 1, Len(v.sent)) = v.sent

\* C3: with limits configured for the axis, a safe move whose target is outside
\* [min_angle, max_angle] raises ValueError with the reason and writes no frame
\* at all; a target inside the range with no current violation is accepted (the
\* move frame goes out, and the call returns 1 when the drive answers).
SafeMoveOutOfRangeRejected ==
  (protOn /\ mc.op = "move" /\ mc.safe) =>
     LET lim == motors[mc.axis]
         st == CheckLimits(protEnabled, lim, mc.env)
     IN  /\ TargetOutOfRange(lim, mc.target) =>
              /\ mc.raised = "ValueError"
              /\ mc.msg \in {"below minimum", "above maximum"}
              /\ mc.sent = <<>>
         /\ (~TargetOutOfRange(lim, mc.target) /\ st.violation_type = V_NONE) =>
              /\ HasMoveFrame(mc.sent)
              /\ (mc.env.cmd.ok => mc.raised = "" /\ mc.value = 1)

\* C3 witness: the scenario of the test: elevation 0..90, move_elevation(95).
ElevationMove95Rejected ==
  /\ protOn /\ mc.op = "move" /\ mc.safe
  /\ mc.axis = "elevation" /\ mc.target = 95
  /\ motors["elevation"].max_angle = Some(90)
  /\ mc.raised = "ValueError"

StopAllAttemptsEveryAxis ==
  mc.op = "estop_all" =>
     /\ Len(mc.sent) = 3
     /\ mc.raised = ""
     /\ DOMAIN mc.results = AxisSet

-----------------------------------------------------------------------------
\* Properties of the backend (SpecBus, SpecTrack)

\* C1 (as claimed): at most one transaction is in flight on the bus at any
\* time, whichever contexts are active (tracking loop, telemetry polling, the
\* stop and stop-all endpoints).
OneTransactionInFlight == Cardinality(InFlight) <= 1

\* C9 (as claimed): during a stop() call no speed-mode run is the last command
\* of an axis whose stop the call has already issued, and when stop() returns
\* no axis has a speed-mode run as its last command, whatever start, stop and
\* loop steps interleave.
StopLeavesNoAxisRunning ==
  [][ /\ \A n \in 1..NumAxes :
           (stopCall'.pc \in {"wait", "xfer"} /\ n < stopCall'.ax)
              => lastCmd'[TrackAxes[n]].kind # "run"
      /\ (stopCall.pc = "xfer" /\ stopCall'.pc = "idle")
              => \A a \in TrackAxisSet : lastCmd'[a].kind # "run" ]_vars

\* C10 (as claimed): when the position read of an axis fails in a tick while a
\* speed-mode run is the last command of that axis, the tick goes on to issue
\* the stop-into-hold for it and the mode becomes Hold.
ReadFailureDegradesToHold ==
  [][ \A i \in LoopIds :
        ( /\ loops[i].pc = "reading"
          /\ loops'[i] # loops[i]
          /\ lastTick'.read = "failed"
          /\ lastCmd[TrackAxes[loops[i].ax]].kind = "run" )
        => /\ loops'[i].pc = "cmd"
           /\ loops'[i].ax = loops[i].ax
           /\ loops'[i].cmd = StopCmd
           /\ loops'[i].new_mode = "hold" ]_vars

\* C20 (as claimed): when the mode of an axis goes from TrackSpeed to
\* Correcting or Hold, the step that changes the mode is the return of a
\* stop-into-hold sent to that axis; a tick that leaves the axis in Correcting
\* or Hold sends no stop; a tick that keeps it in TrackSpeed with a speed less
\* than 5 RPM from the last one sends no frame.
TrackSpeedExitStopsOnce ==
  [][ \A a \in TrackAxisSet :
        /\ (axes[a].mode = "track_speed" /\ axes'[a].mode \in {"correcting", "hold"})
              => \E i \in LoopIds : /\ loops[i].pc = "cmd"
                                    /\ TrackAxes[loops[i].ax] = a
                                    /\ loops[i].cmd = StopCmd
        /\ \A i \in LoopIds :
              ( /\ loops[i].pc = "reading" /\ TrackAxes[loops[i].ax] = a
                /\ loops'[i].pc = "cmd" )
              => /\ (axes[a].mode \in {"correcting", "hold"}
                       /\ loops'[i].new_mode = axes[a].mode)
                      => loops'[i].cmd.kind # "stop"
                 /\ (axes[a].mode = "track_speed" /\ loops'[i].new_mode = "track_speed")
                      => Abs(loops'[i].cmd.rpm - axes[a].speed_rpm) >= SPEED_DEADBAND ]_vars

-----------------------------------------------------------------------------
\* Properties of the protection system (SpecProt)

\* the read of check_limits that raised, if one did: the code of the last
\* frame the check sent
FailedRead(st) == IF st.read_failed THEN st.sent[Len(st.sent)].code ELSE 0

\* C11 (as claimed): on an axis with hardware limit switches, with protection
\* enabled and the angle read answered, check_limits reports HARDWARE_LIMIT
\* whenever the switch is asserted, also when the angle is outside the
\* software range.
HardwareLimitTakesPrecedence ==
  ( /\ mc.op = "check" /\ protEnabled
    /\ motors[mc.axis].has_hardware_limits
    /\ mc.env.ang.ok
    /\ mc.env.sw = Got(1) )
  => mc.status.violation_type = V_HARDWARE_LIMIT

\* C12 (as claimed): validate_move does not return (True, "Move validated")
\* when the read of the position, of the limit switches or of the protect
\* flag raised during its check_limits.
ValidateNeverApprovesBlind ==
  ( /\ mc.op = "validate" /\ protEnabled
    /\ FailedRead(CheckLimits(protEnabled, motors[mc.axis], mc.env))
         \in {OP_READ_ANGLE, OP_READ_IO, OP_READ_PROTECT}
    /\ mc.sent # <<>> )
  => ~(mc.value = 1 /\ mc.msg = "Move validated")

\* C13 (as claimed): a check_limits in which a drive read raised does not
\* return a status whose violation type is NONE (axis free of violations).
CheckFailureIsNotAllClear ==
  (mc.op = "check" /\ mc.status.read_failed) => mc.status.violation_type # V_NONE

\* C14 (as claimed): every validate_move compares against one MotorLimits
\* value: an update of the limits of the axis never takes effect between the
\* comparison of the target and the comparisons of the current angle.
LimitsSeenConsistent ==
  (chk.pc = "done" /\ Len(chk.seen) = 2) => chk.seen[1] = chk.seen[2]

-----------------------------------------------------------------------------
\* Further properties of the link (SpecLink)

\* C15: a transaction writes its request frame exactly once: while it waits
\* for the reply and when it has returned (a frame or any of the errors), one
\* frame was written, never a second one.
OneRequestPerTransaction ==
  /\ nwrites <= 1
  /\ (lpc \in {"hdr", "rest", "scan"} => nwrites = 1)
  /\ (ret.kind # "none" => nwrites = 1)

\* C15 witness: a transaction ended with a short reply after its one request.
ShortReplyAfterOneRequest ==
  ret.kind = "NoResponse" /\ ret.why = "short" /\ nwrites = 1 /\ lpc = "idle"

\* C16: every transaction ends: whatever the drives send (nothing, a part of
\* a frame, bytes that never form a frame), the call returns a frame or
\* raises, on the fixed-length path and on the scanning path.
TransactionEnds == (lpc # "idle") ~> (lpc = "idle" /\ ret.kind # "none")

\* C16 witness: a scanned reply never became a frame and the call ended with
\* the timeout error.
ScanTimedOut == ret.kind = "NoResponse" /\ ret.why = "scan" /\ lpc = "idle"

\* the opcodes console_raw_command exempts from its function-code test
MotionOps == {244, 245, 246, OP_EMERGENCY_STOP, 253, 254}

\* C17 (as claimed): a reply with another function code than the request is
\* rejected when the request is no motion opcode, and is returned to the
\* caller (not raised as a function mismatch) when it is one.
FnMismatchToleratedForMotion ==
  /\ ((ret.kind = "frame" /\ req.code \notin MotionOps) => ret.frame[3] = req.code)
  /\ ((ret.kind = "ProtocolError" /\ ret.why = "fn") => req.code \notin MotionOps)

\* C18 (as claimed): a reply that stops after its header and before its last
\* byte fails with an error of another kind than the one raised when the
\* timeout passes without any byte.
PartialReplyIsNotNoResponse ==
  (lpc = "idle" /\ ret.why = "short") => ret.kind # "NoResponse"


-----------------------------------------------------------------------------
\* C21: determine_mode is a function of the error, the target velocity and
\* the actual velocity alone: TrackSpeed if |error| > 2.0 deg or |target
\* velocity| > 0.1 dps; else Correcting if |error| > 0.5 deg and |actual
\* velocity| > 0.1 dps; else Hold if |error| <= 0.5 deg and |actual velocity|
\* <= 0.1 dps; else TrackPosition.
ModeFromErrorAndVelocities ==
  calc.op = "determine_mode" =>
    LET e == Abs(calc.in.error_deg)
        tv == Abs(calc.in.target_velocity_dps)
        av == Abs(calc.in.actual_velocity_dps)
    IN  calc.out = IF e > 20 \/ tv > 1 THEN "track_speed"
                   ELSE IF e > 5 /\ av > 1 THEN "correcting"
                   ELSE IF e <= 5 /\ av <= 1 THEN "hold"
                   ELSE "track_position"

\* the error exactly on the 2.0 deg threshold and the target velocity on the
\* 0.1 dps one, the mount at rest: not TrackSpeed but TrackPosition
ModeOnTheThreshold ==
  /\ calc.op = "determine_mode"
  /\ calc.in.error_deg = 20
  /\ calc.in.target_velocity_dps = 1
  /\ calc.in.actual_velocity_dps = 0
  /\ calc.in.mode = "track_speed"
  /\ calc.out = "track_position"


\* C22: a move of the multi-axis controller that returns gives its caller
\* the status byte the drive answered to the move frame (1 accepted, 0
\* rejected), with limit checking and without it: a move the drive rejected
\* is never reported as accepted.
MoveReturnsStatusByte ==
  (/\ mc.op = "move"
   /\ mc.raised = ""
   /\ mc.env.cmd.ok) => mc.value = mc.env.cmd.v


\* C23: every motion command that carries a speed (speed mode, relative and
\* absolute moves by ticks, pulses or degrees) puts a speed between 0 and
\* 3000 RPM into its frame, whatever speed the caller passed.
MotionSpeedWithinRange ==
  calc.op = "motion" => SpeedOf(calc.in.code, calc.out) \in 0..3000


\* C24: set_hold_current_percent rounds the percentage down to a step of
\* ten: the index sent is floor(p / 10) - 1 limited to 0..8, and every p
\* below 10 gives index 0.
HoldCurrentRoundsDown ==
  calc.op = "set_hold_current_percent" =>
    LET i == (calc.in \div 10) - 1
    IN  calc.out = <<IF i > 8 THEN 8 ELSE IF i < 0 THEN 0 ELSE i>>


\* C25: for every address, function code and payload of at most 34 bytes,
\* decoding the encoded frame gives back the same (address, function,
\* payload). Stated for the frame with the header the decoder accepts.
FrameRoundTrip ==
  (calc.op = "recv" /\ calc.in.hdr = UP_HDR) =>
    /\ calc.out.kind = "frame"
    /\ <<calc.out.frame[2], calc.out.frame[3], SubSeq(Front(calc.out.frame), 4, Len(calc.out.frame) - 1)>>
         = <<calc.in.addr, calc.in.code, calc.in.data>>


\* C26: for every angle deg in [0, 360), the angle of the ticks of deg is
\* within 360/16384 degrees of deg:
\* |axis_ticks_to_degrees(degrees_to_axis_ticks(deg)) - deg| <= 360/16384.
\* With deg = n/d and the result a/b: |a*d - n*b| <= 360*d*b/16384.
DegreesRoundTripWithinOneTick ==
  calc.op = "degrees_round_trip" =>
    Abs(calc.out.num * calc.in.den - calc.in.num * calc.out.den)
      <= (360 * calc.in.den * calc.out.den) \div 16384

\* 0.02 degrees is 0.91 ticks: it goes to one tick and comes back as
\* 360/16384 = 0.02197 degrees
DegreesRoundedUp ==
  /\ calc.op = "degrees_round_trip"
  /\ calc.in = [num |-> 2, den |-> 100]
  /\ calc.out = [num |-> 360, den |-> 16384]


TickUsesFreshError ==
  [][(/\ loops[1].pc = "reading"
      /\ loops'[1] # loops[1]
      /\ lastTick'.read = "ok") =>
       LET a == TrackAxes[loops[1].ax]
       IN  axes'[a].error_deg = axes'[a].target_deg - axes'[a].actual_deg]_vars


SpeedFrameOnlyOnChange ==
  [][LET a == TrackAxes[loops[1].ax]
     IN  (/\ loops[1].pc = "reading"
          /\ loops'[1].pc = "cmd"
          /\ axes[a].mode = "track_speed"
          /\ loops'[1].new_mode = "track_speed"
          /\ loops'[1].cmd.kind \in {"run", "stop"}) =>
           Abs(loops'[1].cmd.rpm - axes[a].speed_rpm) > SPEED_DEADBAND]_vars


\* C31: on every tick where the mode of an axis changes, the entry action of
\* the new mode is issued (speed-mode run for TrackSpeed, stop for Hold,
\* emergency stop for Idle) and the steady action of the new mode is then
\* executed on that same tick (for Correcting: the position move).
ModeChangeEntersAndExecutes ==
  [][LET a == TrackAxes[loops[1].ax]
         new_mode == IF loops'[1].pc = "cmd" THEN loops'[1].new_mode
                     ELSE axes'[a].mode
     IN  (/\ loops[1].pc = "reading"
          /\ loops'[1] # loops[1]
          /\ lastTick'.read = "ok"
          /\ new_mode # axes[a].mode) =>
           /\ loops'[1].pc = "cmd"
           /\ loops'[1].cmd.kind =
                CASE new_mode = "track_speed" -> "run"
                  [] new_mode = "hold" -> "stop"
                  [] new_mode = "idle" -> "estop"
                  [] OTHER -> "move"]_vars


RecoveryBacksAwayFromLimit ==
  (/\ mc.op = "recover"
   /\ mc.status.violation_type \in {V_SOFTWARE_MIN, V_HARDWARE_LIMIT, V_SOFTWARE_MAX}
   /\ mc.status.current_angle.has) =>
    LET lim == motors[mc.axis]
        a == mc.status.current_angle.v
        max_side == \/ mc.status.violation_type = V_SOFTWARE_MAX
                    \/ (mc.status.violation_type = V_HARDWARE_LIMIT /\ mc.env.sw = Got(2))
        target == IF max_side THEN a - lim.recovery_distance ELSE a + lim.recovery_distance
    IN  mc.sent = <<Fr(lim.addr, OP_MOVE_ABS, lim.recovery_speed, DegreesToAxisTicks(target))>>


\* C34 (as claimed): for a following-error violation recover sends an
\* emergency-stop frame to the axis and then a release-protect frame, in that
\* order.
FollowingErrorStopsThenReleases ==
  (mc.op = "recover" /\ mc.status.violation_type = V_FOLLOWING_ERROR) =>
    mc.sent = <<Fr(motors[mc.axis].addr, OP_EMERGENCY_STOP, 0, 0),
                Fr(motors[mc.axis].addr, OP_RELEASE_PROTECT, 0, 0)>>

\* C34 (amended): for a following-error violation recover first sends an
\* emergency-stop frame to the axis; when that transaction is answered it
\* waits and sends one release-protect frame to the same axis, when it
\* raises the call returns failure with nothing more sent.  In no recover
\* call for a following error is a release-protect sent without the
\* emergency stop before it.
FollowingErrorReleasesAfterStop ==
  (mc.op = "recover" /\ mc.status.violation_type = V_FOLLOWING_ERROR) =>
    LET stop == Fr(motors[mc.axis].addr, OP_EMERGENCY_STOP, 0, 0)
        rel == Fr(motors[mc.axis].addr, OP_RELEASE_PROTECT, 0, 0)
    IN  /\ mc.sent = IF mc.env.cmd.ok THEN <<stop, rel>> ELSE <<stop>>
        /\ mc.sleeps = IF mc.env.cmd.ok THEN 1 ELSE 0
        /\ (~mc.env.cmd.ok => mc.value = 0)
        /\ \A k \in 1..Len(mc.sent) :
             mc.sent[k].code = OP_RELEASE_PROTECT =>
               \E j \in 1..(k - 1) : mc.sent[j].code = OP_EMERGENCY_STOP

\* C34 witness: a recovery from a following error of -600 ticks on the cross
\* axis whose emergency stop was answered: stop, then release
FollowingErrorRecovered ==
  /\ mc.op = "recover"
  /\ mc.axis = "cross"
  /\ mc.status.violation_type = V_FOLLOWING_ERROR
  /\ mc.status.axis_error = -600
  /\ Len(mc.sent) = 2
  /\ mc.sent[1].code = OP_EMERGENCY_STOP /\ mc.sent[2].code = OP_RELEASE_PROTECT
  /\ mc.value = 1


\* C35: for a reply without a fixed length the receiver returns the first
\* prefix of the incoming bytes (the 3-byte header plus at least one byte)
\* whose last byte is the checksum of the bytes before it, and fails when
\* the deadline passes without such a prefix; bytes that arrive after that
\* prefix are not part of the returned frame.
ScanReturnsFirstValidPrefix ==
  calc.op = "recv_scan" =>
    LET buf == calc.in
        Valid(k) == Checksum8(SubSeq(buf, 1, k - 1)) = buf[k]
    IN  IF \E k \in 4..Len(buf) : Valid(k)
          THEN /\ calc.out.kind = "frame"
               /\ Len(calc.out.frame) \in 4..Len(buf)
               /\ calc.out.frame = SubSeq(buf, 1, Len(calc.out.frame))
               /\ Valid(Len(calc.out.frame))
               /\ \A k \in 4..(Len(calc.out.frame) - 1) : ~Valid(k)
          ELSE calc.out.kind = "NoResponse"

\* FB 01 40 | 3C 78 00: the frame ends at 3C, the sum of the header; the
\* next byte 78 would end a checksum-valid prefix too and is not read
ScanStopsBeforeLaterBytes ==
  /\ calc.op = "recv_scan"
  /\ calc.in = <<251, 1, 64, 60, 120, 0>>
  /\ calc.out.kind = "frame"
  /\ calc.out.frame = <<251, 1, 64, 60>>


\* C36: with a stationary target (target velocity 0) and an axis at rest
\* whose error is above the hold threshold (0.5 deg) and at most the track
\* threshold (2.0 deg), the tracking loop eventually sends a motion command
\* that moves the axis toward the target: the axis does not stay for ever
\* in a mode in which no command is sent.
StationaryTargetApproached ==
  LET st == axes["AZ"]
      Apart == /\ running
               /\ st.target_velocity_dps = 0
               /\ st.actual_velocity_dps = 0
               /\ st.error_deg = st.target_deg - st.actual_deg
               /\ Abs(st.error_deg) > HOLD_ERROR_THRESHOLD
               /\ Abs(st.error_deg) <= TRACK_ERROR_THRESHOLD
  IN  Apart ~> \/ ~Apart
               \/ /\ loops[1].pc = "cmd"
                  /\ loops[1].ax = 1
                  /\ loops[1].cmd.kind \in {"run", "move"}


\* C37: after any sequence of start() and stop() calls at most one
\* tracking-loop task is executing control passes: start() while a loop is
\* active, or start() shortly after stop(), never leaves two loops
\* commanding the same axes.
AtMostOneTrackingLoop ==
  Cardinality({i \in LoopIds : loops[i].pc \notin {"off", "done"}}) <= 1


\* C38: while an axis is in TrackSpeed, on every tick where the direction
\* just computed differs from the direction of the last speed-mode command
\* sent to it, a speed-mode command with the new direction is sent on that
\* tick, also when the speed differs by 5 RPM or less.
DirectionChangeIsCommanded ==
  [][LET a == TrackAxes[loops[1].ax]
         c == CalculateControlSpeed(axes'[a])
     IN  (/\ loops[1].pc = "reading"
          /\ loops'[1] # loops[1]
          /\ lastTick'.read = "ok"
          /\ axes[a].mode = "track_speed"
          /\ DetermineMode(axes'[a]) = "track_speed"
          /\ lastCmd[a].kind = "run"
          /\ c.speed_rpm > 0
          /\ c.dir_ccw # lastCmd[a].ccw) =>
           /\ loops'[1].pc = "cmd"
           /\ loops'[1].cmd.kind = "run"
           /\ loops'[1].cmd.ccw = c.dir_ccw]_vars


\* C39: for every RPM in [0, 3000] and each direction, the two bytes of the
\* speed/direction packing in F6 and FD frames determine the direction and
\* the RPM uniquely: two commands with the same two bytes have the same
\* direction and the same RPM.
SpeedDirBytesUnique ==
  (/\ calc.op = "pack_speed_dir"
   /\ \A i \in 1..2 : calc.in[i].speed_rpm \in 0..3000) =>
     (calc.out[1] = calc.out[2] => calc.in[1] = calc.in[2])


\* C40: for every axis and every choice of axis addresses given to the
\* MotorController constructor, a move with safe=True is addressed to the
\* same drive as the move with safe=False, the address configured for that
\* axis, and the limit checks before it read the status of that address.
SafeMoveUsesConfiguredAddress ==
  mc.op = "move" =>
    \A i \in 1..Len(mc.sent) : mc.sent[i].addr = axisAddr[mc.axis]

=============================================================================
